---- MODULE Spec2Model ----
(***************************************************************************)
(* Windermere: the per-tenant SQL storage engine (SQLBackend) with its     *)
(* single-entity operations, Clear, the reader and the Bulk executor.      *)
(*                                                                         *)
(* The database is modelled as the committed contents of the seven primary *)
(* tables and the seven child tables.  A transaction owns a pooled         *)
(* connection and a private write set; its statements read the committed   *)
(* rows overlaid with its own writes and Commit publishes the write set in *)
(* one step.                                                               *)
(***************************************************************************)
EXTENDS Integers, Sequences, FiniteSets, TLC

(***************************************************************************)
(* Bounds of the model (not program constants).                            *)
(***************************************************************************)
\* number of backend calls issued in one behaviour of Spec
MaxCalls == 2
\* number of connection slots of the pool that the model keeps
PoolSize == 2
\* number of Commit failures injected in one behaviour
MaxCommitFail == 1
\* length of the operation lists handed to Bulk, apart from the one list
\* that is longer than a transaction may be
MaxOps == 3
\* the wall clock stops at this time
MaxTime == 4
\* number of ImportRunners created in one behaviour
MaxRunners == 2
\* number of ticks the ticker delivers to the runner of SpecRunner; the
\* runners the manager creates get one tick less
MaxTicks == 2
\* number of AddRunner and DeleteRunner calls in one behaviour
MaxReqs == 3
\* number of full imports of a tenant in one behaviour
MaxImports == 2
\* number of startups of the backend in one behaviour
MaxStarts == 2
\* number of writes of an import history in one behaviour
MaxWrites == 2

(***************************************************************************)
(* Value universes the inputs are drawn from.                              *)
(***************************************************************************)
Tenants == {"t1", "t2"}
Ids == {"a", "b"}
\* persisted scalar attributes of an entity (displayName, userName, ...)
Vals == {"v1", "v2"}
\* element values of an owned collection (an email, a member id, ...)
KidVals == {"x", "y"}
Procs == {"p1", "p2"}
\* "mysql" stands for the drivers whose connections all enforce foreign keys
Drivers == {"sqlite", "mysql"}

Missing == "missing"
NoRow == "norow"
NoGroup == "nogroup"
NoId == "noid"

(***************************************************************************)
(* Schema: primary tables, child tables and their foreign keys.            *)
(***************************************************************************)
mainTable == {"Users", "StudentGroups", "Organisations", "SchoolUnitGroups",
              "SchoolUnits", "Employments", "Activities"}

tablesForClearTenant == <<"Users", "StudentGroups", "Organisations",
                          "SchoolUnitGroups", "SchoolUnits", "Employments",
                          "Activities">>

\* child table |-> the primary table its ON DELETE CASCADE foreign key names
migrations == [Emails |-> "Users", Enrolments |-> "Users",
               ExternalIdentifiers |-> "Users",
               StudentMemberships |-> "StudentGroups",
               SchoolTypes |-> "SchoolUnits",
               ActivityTeachers |-> "Activities",
               ActivityGroups |-> "Activities"]

ChildTables == DOMAIN migrations

\* the owned collections of a resource type, in the order its creator and
\* mutator write them
objectMutator == [Users |-> <<"Emails", "Enrolments", "ExternalIdentifiers">>,
                  StudentGroups |-> <<"StudentMemberships">>,
                  Organisations |-> <<>>,
                  SchoolUnitGroups |-> <<>>,
                  SchoolUnits |-> <<"SchoolTypes">>,
                  Employments |-> <<>>,
                  Activities |-> <<"ActivityTeachers", "ActivityGroups">>]

Range(s) == {s[i] : i \in DOMAIN s}

ChildTablesOf(rt) == Range(objectMutator[rt])

\* resource types whose Go struct carries attributes the schema has no
\* column for (userRelations, civicNo, schoolType, parentActivity, $ref)
HasUnstored == {"Users", "StudentGroups", "SchoolUnits", "Employments",
                "Activities"}

MainKeys == Tenants \X mainTable \X Ids
ChildKeys == Tenants \X ChildTables \X Ids

(***************************************************************************)
(* The object parser: raw JSON body -> typed object or parse error.        *)
(* A raw body is [id, val, kids, group, extra]: val = Missing stands for a *)
(* body that lacks a required attribute; group is Activity's legacy        *)
(* singular reference; extra says that the body carries an attribute the   *)
(* SQL schema does not persist.                                            *)
(***************************************************************************)
ensureRequired(raw) == raw.val # Missing

ActivityUnmarshalJSON(raw) ==
    IF raw.group # NoGroup
    THEN [raw.kids EXCEPT !["ActivityGroups"] = <<raw.group>>]
    ELSE raw.kids

objectParser(rt, raw) ==
    IF ~ensureRequired(raw)
    THEN [ok |-> FALSE, id |-> raw.id, val |-> Missing,
          kids |-> raw.kids, extra |-> FALSE]
    ELSE [ok |-> TRUE, id |-> raw.id, val |-> raw.val,
          kids |-> IF rt = "Activities" THEN ActivityUnmarshalJSON(raw)
                   ELSE raw.kids,
          extra |-> raw.extra]

(***************************************************************************)
(* Database images.  A store is [main, child]; a write set is a pair of    *)
(* partial functions over the same keys.                                   *)
(***************************************************************************)
EmptyStore == [main |-> [k \in MainKeys |-> NoRow],
               child |-> [k \in ChildKeys |-> <<>>]]

EmptyDelta == [main |-> <<>>, child |-> <<>>]

\* what a statement of a transaction sees: committed rows overlaid with the
\* transaction's own writes
View(store, delta) ==
    [main |-> [k \in MainKeys |->
                 IF k \in DOMAIN delta.main THEN delta.main[k]
                 ELSE store.main[k]],
     child |-> [k \in ChildKeys |->
                 IF k \in DOMAIN delta.child THEN delta.child[k]
                 ELSE store.child[k]]]

WriteMain(delta, k, v) ==
    [delta EXCEPT !.main = (k :> v) @@ delta.main]

WriteChild(delta, k, rows) ==
    [delta EXCEPT !.child = (k :> rows) @@ delta.child]

WriteChildren(delta, ks) ==
    [delta EXCEPT !.child =
        [k \in ks \cup DOMAIN delta.child |->
            IF k \in ks THEN <<>> ELSE delta.child[k]]]

\* child collections hanging off the primary row (tenant, table, id)
ChildKeysOf(tenant, table, id) ==
    {<<tenant, c, id>> : c \in ChildTablesOf(table)}

(***************************************************************************)
(* SQL statements.  A statement is [s, table, tenant, id, val, rows]; it   *)
(* is applied to the view of its transaction and yields the new write set, *)
(* an error kind and (for a SELECT) the rows read.                         *)
(***************************************************************************)
Stmt(s, table, tenant, id, val, rows) ==
    [s |-> s, table |-> table, tenant |-> tenant, id |-> id, val |-> val,
     rows |-> rows]

WriteKinds == {"insertMain", "updateMain", "deleteChild", "insertChild",
               "deleteMain", "deleteTenant"}

StmtResult(delta, e) == [delta |-> delta, err |-> e]

\* a presence check that forgets the tenant column
ensureHasRecordAnyTenant(v, st) ==
    IF \A t \in Tenants : v.main[<<t, st.table, st.id>>] = NoRow
    THEN "MissingResource" ELSE "none"

\* SELECT 1 FROM table WHERE tenant = :tenant AND id = :id
ensureHasRecord(v, st) ==
    IF v.main[<<st.tenant, st.table, st.id>>] = NoRow
    THEN "MissingResource" ELSE "none"

\* a Create that does not look for the id first
ensureDoesntHaveRecordSkipped(v, st) == "none"

ensureDoesntHaveRecord(v, st) ==
    IF ensureHasRecord(v, st) = "none" THEN "Conflict" ELSE "none"

\* rows deleted together with the primary rows ks: by ON DELETE CASCADE when
\* the connection enforces foreign keys, none otherwise
Cascade(v, ks, fk) ==
    IF fk
    THEN {c \in ChildKeys : /\ <<c[1], migrations[c[2]], c[3]>> \in ks
                            /\ v.child[c] # <<>>}
    ELSE {}

\* the keys a write statement changes, given the view it runs on
Touches(v, st, fk) ==
    LET k == <<st.tenant, st.table, st.id>> IN
    CASE st.s = "insertMain" -> {k}
      [] st.s = "updateMain" -> IF v.main[k] = NoRow THEN {} ELSE {k}
      [] st.s = "deleteChild" -> IF v.child[k] = <<>> THEN {} ELSE {k}
      [] st.s = "insertChild" -> {k}
      [] st.s = "deleteMain" ->
            IF v.main[k] = NoRow THEN {} ELSE {k} \cup Cascade(v, {k}, fk)
      [] st.s = "deleteTenant" ->
            LET ks == {m \in MainKeys : /\ m[1] = st.tenant
                                        /\ m[2] = st.table
                                        /\ v.main[m] # NoRow}
            IN ks \cup Cascade(v, ks, fk)
      [] OTHER -> {}

ApplyStmt(store, delta, fk, st) ==
    LET v == View(store, delta)
        k == <<st.tenant, st.table, st.id>>
    IN
    CASE st.s = "ensureHasRecord" -> StmtResult(delta, ensureHasRecord(v, st))
      [] st.s = "ensureDoesntHaveRecord" ->
            StmtResult(delta, ensureDoesntHaveRecord(v, st))
      [] st.s = "insertMain" ->
            \* PRIMARY KEY (tenant, id)
            IF v.main[k] # NoRow THEN StmtResult(delta, "infra")
            ELSE StmtResult(WriteMain(delta, k, st.val), "none")
      [] st.s = "updateMain" ->
            IF v.main[k] = NoRow THEN StmtResult(delta, "none")
            ELSE StmtResult(WriteMain(delta, k, st.val), "none")
      [] st.s = "deleteChild" ->
            IF v.child[k] = <<>> THEN StmtResult(delta, "none")
            ELSE StmtResult(WriteChild(delta, k, <<>>), "none")
      [] st.s = "insertChild" ->
            \* FOREIGN KEY (tenant, parentId) REFERENCES parent(tenant, id)
            IF fk /\ v.main[<<st.tenant, migrations[st.table], st.id>>] = NoRow
            THEN StmtResult(delta, "infra")
            ELSE StmtResult(WriteChild(delta, k, v.child[k] \o st.rows), "none")
      [] st.s = "deleteMain" ->
            IF v.main[k] = NoRow THEN StmtResult(delta, "none")
            ELSE StmtResult(
                   WriteChildren(WriteMain(delta, k, NoRow),
                                 Cascade(v, {k}, fk)), "none")
      [] st.s = "deleteTenant" ->
            LET ks == {m \in MainKeys : /\ m[1] = st.tenant
                                        /\ m[2] = st.table
                                        /\ v.main[m] # NoRow}
            IN StmtResult(
                 WriteChildren(
                   [delta EXCEPT !.main =
                      [m \in ks \cup DOMAIN delta.main |->
                          IF m \in ks THEN NoRow ELSE delta.main[m]]],
                   Cascade(v, ks, fk)), "none")
      [] OTHER -> StmtResult(delta, "none")

\* the statements ss of one operation run in order on the transaction's
\* view; the first error ends the operation
RECURSIVE RunStmts(_, _, _, _)
RunStmts(store, delta, fk, ss) ==
    IF ss = <<>> THEN StmtResult(delta, "none")
    ELSE LET r == ApplyStmt(store, delta, fk, Head(ss)) IN
         IF r.err # "none" THEN r
         ELSE RunStmts(store, r.delta, fk, Tail(ss))

RECURSIVE Flatten(_)
Flatten(ss) == IF ss = <<>> THEN <<>> ELSE Head(ss) \o Flatten(Tail(ss))

\* createEmails, createEnrolments, ...: one multi-row INSERT per non-empty
\* collection
createChildren(tenant, rt, obj) ==
    LET cs == objectMutator[rt] IN
    Flatten([i \in 1..Len(cs) |->
               IF obj.kids[cs[i]] = <<>> THEN <<>>
               ELSE <<Stmt("insertChild", cs[i], tenant, obj.id, NoRow,
                           obj.kids[cs[i]])>>])

\* userCreator, studentGroupCreator, ...
objectCreator(tenant, rt, obj) ==
    <<Stmt("insertMain", rt, tenant, obj.id, obj.val, <<>>)>>
    \o createChildren(tenant, rt, obj)

\* userMutator, ...: UPDATE by the id of the body, then delete and reinsert
\* each owned collection of that id
objectMutatorStmts(tenant, rt, obj) ==
    LET cs == objectMutator[rt] IN
    <<Stmt("updateMain", rt, tenant, obj.id, obj.val, <<>>)>>
    \o Flatten([i \in 1..Len(cs) |->
                 <<Stmt("deleteChild", cs[i], tenant, obj.id, NoRow, <<>>)>>
                 \o (IF obj.kids[cs[i]] = <<>> THEN <<>>
                     ELSE <<Stmt("insertChild", cs[i], tenant, obj.id, NoRow,
                                 obj.kids[cs[i]])>>)])

create(tenant, rt, obj) ==
    <<Stmt("ensureDoesntHaveRecord", rt, tenant, obj.id, NoRow, <<>>)>>
    \o objectCreator(tenant, rt, obj)

update(tenant, rt, resourceID, obj) ==
    <<Stmt("ensureHasRecord", rt, tenant, resourceID, NoRow, <<>>)>>
    \o objectMutatorStmts(tenant, rt, obj)

delete(tenant, rt, resourceID) ==
    <<Stmt("ensureHasRecord", rt, tenant, resourceID, NoRow, <<>>),
      Stmt("deleteMain", rt, tenant, resourceID, NoRow, <<>>)>>

\* the DELETEs of Clear without their WHERE tenant = ?
ClearStmtsEveryTenant(tenant) ==
    LET n == Len(tablesForClearTenant) IN
    [i \in 1..(2 * n) |->
        Stmt("deleteTenant", tablesForClearTenant[((i - 1) % n) + 1],
             IF i <= n THEN "t1" ELSE "t2", NoId, NoRow, <<>>)]

ClearStmts(tenant) ==
    [i \in 1..Len(tablesForClearTenant) |->
        Stmt("deleteTenant", tablesForClearTenant[i], tenant, NoId, NoRow,
             <<>>)]

\* userReaderOne, ...: the primary row, then each child table by parent id
objectReaderOne(tenant, rt, id) ==
    LET cs == objectMutator[rt] IN
    <<Stmt("selectMain", rt, tenant, id, NoRow, <<>>)>>
    \o [i \in 1..Len(cs) |->
          Stmt("selectChild", cs[i], tenant, id, NoRow, <<>>)]

GetParsedResourceStmts(tenant, rt, id) ==
    <<Stmt("ensureHasRecord", rt, tenant, id, NoRow, <<>>)>>
    \o objectReaderOne(tenant, rt, id)

(***************************************************************************)
(* Inputs of the calls.                                                    *)
(***************************************************************************)
NoKids(rt) == [c \in ChildTablesOf(rt) |-> <<>>]

Raw(id, val, kids, group, extra) ==
    [id |-> id, val |-> val, kids |-> kids, group |-> group, extra |-> extra]

NoRaw == Raw(NoId, Missing, <<>>, NoGroup, FALSE)

\* bodies a client may send for resource type rt: well-formed bodies for
\* both ids, a body that lacks a required attribute, a body with an
\* attribute that has no column, and an Activity in the legacy singular form
RawBodies(rt) ==
    LET cs == objectMutator[rt]
        X == [c \in ChildTablesOf(rt) |-> <<"x">>]
        YX == [c \in ChildTablesOf(rt) |-> IF c = cs[1] THEN <<"y", "x">>
                                           ELSE <<>>]
    IN
    {Raw("a", "v1", X, NoGroup, FALSE),
     Raw("a", "v2", YX, NoGroup, FALSE),
     Raw("b", "v1", X, NoGroup, FALSE),
     Raw("b", "v2", NoKids(rt), NoGroup, FALSE),
     Raw("a", Missing, NoKids(rt), NoGroup, FALSE)}
    \cup (IF rt \in HasUnstored
          THEN {Raw("b", "v1", NoKids(rt), NoGroup, TRUE)} ELSE {})
    \cup (IF rt = "Activities"
          THEN {Raw("a", "v1", X, "y", FALSE)} ELSE {})

CallRec(kind, tenant, rt, id, raw) ==
    [kind |-> kind, tenant |-> tenant, rt |-> rt, id |-> id, raw |-> raw]

NoCall == CallRec("none", "t1", "Users", NoId, NoRaw)

\* a store in which both tenants hold entity "a" of every resource type with
\* one element in each owned collection (reached by fourteen Creates)
SeedStore ==
    [main |-> [k \in MainKeys |-> IF k[3] = "a" THEN "v1" ELSE NoRow],
     child |-> [k \in ChildKeys |-> IF k[3] = "a" THEN <<"x">> ELSE <<>>]]

(***************************************************************************)
(* State.                                                                  *)
(***************************************************************************)
VARIABLES
    driver,   \* db.DriverName()
    focus,    \* the resource type the calls of this behaviour address
    db,       \* committed contents of the database
    conns,    \* the connection pool: slot -> [st, fk]
    pc,       \* per handler: position in its call
    call,     \* per handler: the call being served
    tx,       \* per handler: its open transaction
    stmts,    \* per handler: statements still to execute
    err,      \* per handler: error kind of the call ("none" if it succeeded)
    got,      \* per handler: the object assembled by the reader
    pre,      \* per handler: committed store when the call was issued
    ncalls,   \* calls issued so far
    nfail,    \* Commit failures injected so far
    bulk,     \* the Bulk call in progress: its arguments, locals and results
    log,      \* commits of the Bulk call in progress, in commit order
    schema    \* the schema of the database, and the startup in progress

\* the import subsystem (ss12000v2import and the import adapter)
VARIABLES
    now,      \* the wall clock, time.Now()
    conf,     \* the RunnerConfig the runners are created with
    hist,     \* per tenant: the ImportHistory, and its row in table configs
    runners,  \* per runner: its goroutine's position and ImportRunner fields
    quit,     \* per runner: the position of the Quit call made on it
    mgr,      \* the importManager goroutine: position, command, runners map
    clients,  \* per client: position in its AddRunner or DeleteRunner call
    nreq,     \* manager commands issued so far
    imp       \* the import in progress: remote report, locals, call stack

importVars == <<now, conf, hist, runners, quit, mgr, clients, nreq, imp>>

vars == <<driver, focus, db, conns, pc, call, tx, stmts, err, got, pre,
          ncalls, nfail, bulk, log, schema, importVars>>

\* getSchema(i): the tables migration i creates; the first one also inserts
\* the row of windermere_meta, with version 1
getSchema == <<{"windermere_meta"} \cup mainTable
                   \cup (ChildTables \ {"ExternalIdentifiers"}),
               {"ExternalIdentifiers"}>>

currentSchemaVersion == Len(getSchema)

\* the database holds no table and no backend was started on it.  tables
\* and version are what is stored (version 0: there is no windermere_meta);
\* the other fields belong to the startup in progress: its position, the
\* version it read, the loop counter, the tables and the version as its
\* transaction sees them, the migrations it has executed, what was stored
\* when it began, and what it returned
NoSchema == [tables |-> {}, version |-> 0, pc |-> "down", from |-> 0,
             i |-> 0, txTables |-> {}, txVersion |-> 0, ran |-> <<>>,
             before |-> [tables |-> {}, version |-> 0], res |-> "none",
             n |-> 0]

Stored(s) == [tables |-> s.tables, version |-> s.version]

\* SELECT version FROM windermere_meta
getDBVersion(s) == s.version

NoTx == [active |-> FALSE, conn |-> 0, fk |-> FALSE, wrote |-> FALSE,
         delta |-> EmptyDelta]

NoGot == [val |-> NoRow, kids |-> <<>>]

ConnIds == 1..PoolSize

\* no Bulk call in progress
NoBulk == [pc |-> "idle", tenant |-> "t1", ops |-> <<>>, todo |-> <<>>,
           i |-> 0, acc |-> <<>>, res |-> <<>>, err |-> "none", msg |-> "",
           ctx |-> "live", start |-> EmptyStore]

\* the runners the manager can create, and the callers of the manager
RunnerIds == 1..MaxRunners
Clients == {"c1", "c2"}

\* the query types an import keeps watermarks for, in the order in which
\* FullImport fetches them
queryTypes == <<"PrincipalOrganisations", "SchoolUnitOrganisations",
                "Persons", "Groups", "Duties", "Activities">>

QueryTypes == {queryTypes[i] : i \in DOMAIN queryTypes}

\* NewTenantImportHistory(), a history nothing was written to: every
\* timestamp is the zero time and the two maps are empty (a query type
\* without an entry reads as the zero time).  row and config are the rest of
\* the tenant's row in the table configs: whether the row exists, and the
\* stored ImportConfig
ZeroHist == [fullS |-> 0, fullC |-> 0, incS |-> 0, incC |-> 0,
             created |-> [q \in QueryTypes |-> 0],
             modified |-> [q \in QueryTypes |-> 0],
             deletedCall |-> 0, row |-> FALSE, config |-> "none"]

\* an ImportRunner that NewImportRunner has not created yet.  canceller is
\* the number of the tick whose context the stored function cancels, 0 is
\* nil; ticks counts the ticks taken and ticker is the number of ticks the
\* ticker delivers
NoRunner == [pc |-> "unborn", tenant |-> "t1", stopped |-> FALSE,
             canceller |-> 0, ctx |-> "none", kind |-> "none",
             herr |-> "none", ticks |-> 0, ticker |-> 0]

\* no Quit call was made on the runner
NoQuit == [pc |-> "none", got |-> 0]

NoClient == [pc |-> "idle", cmd |-> "none", tenant |-> "t1", erased |-> 0,
             pre |-> ZeroHist, n |-> 0]

\* importManager waits for a command; its map runners is empty
NoMgr == [pc |-> "idle", tenant |-> "t1", client |-> "c1", old |-> 0,
          runners |-> [t \in Tenants |-> 0], left |-> {}]

\* no call of the import adapter or of IncrementalImport is in progress
NoImp == [pc |-> "idle", op |-> "none", tenant |-> "t1", list |-> <<>>,
          del |-> FALSE, err |-> "none", deleted |-> {}, objs |-> <<>>,
          reported |-> {}, qt |-> 0, start |-> 0,
          seen |-> [q \in QueryTypes |-> <<>>], pre |-> ZeroHist, n |-> 0,
          once |-> EmptyStore]

\* FullImportFrequency, FullImportRetryWait, IncrementalImportFrequency and
\* IncrementalImportRetryWait of the RunnerConfig
ConfRec(ff, fr, nf, nr) == [ff |-> ff, fr |-> fr, nf |-> nf, nr |-> nr]

\* no import manager was started
ImportIdle ==
    /\ now = 1
    /\ conf = ConfRec(1, 1, 0, 1)
    /\ hist = [t \in Tenants |-> ZeroHist]
    /\ runners = [r \in RunnerIds |-> NoRunner]
    /\ quit = [r \in RunnerIds |-> NoQuit]
    /\ mgr = NoMgr
    /\ clients = [c \in Clients |-> NoClient]
    /\ nreq = 0
    /\ imp = NoImp

\* NewSQLBackend has run: initDBConnection executed PRAGMA foreign_keys = ON
\* on one pooled connection, which went back to the pool
InitBackend ==
    /\ driver \in Drivers
    /\ conns = [c \in ConnIds |->
                  IF c = 1 THEN [st |-> "idle", fk |-> TRUE]
                  ELSE [st |-> "closed", fk |-> FALSE]]
    /\ pc = [p \in Procs |-> "idle"]
    /\ call = [p \in Procs |-> NoCall]
    /\ tx = [p \in Procs |-> NoTx]
    /\ stmts = [p \in Procs |-> <<>>]
    /\ err = [p \in Procs |-> "none"]
    /\ got = [p \in Procs |-> NoGot]
    /\ pre = [p \in Procs |-> db]
    /\ ncalls = 0
    /\ nfail = 0
    /\ bulk = NoBulk
    /\ log = <<>>

\* initSchema has brought the database to the code's version
Migrated ==
    schema = [NoSchema EXCEPT
                 !.tables = UNION {getSchema[i] : i \in DOMAIN getSchema},
                 !.version = currentSchemaVersion, !.pc = "returned",
                 !.res = "nil", !.n = 1]

Init ==
    /\ focus \in mainTable
    /\ db \in {EmptyStore, SeedStore}
    /\ InitBackend
    /\ Migrated
    /\ ImportIdle

(***************************************************************************)
(* The connection pool (database/sql).                                     *)
(***************************************************************************)
\* foreign-key enforcement of a freshly opened connection: SQLite needs the
\* PRAGMA on every connection, driverSpecificInit issued it on one only
driverSpecificInit(d) == d # "sqlite"

\* a transaction takes an idle connection; when none is idle the pool opens
\* a new one
CanTake(c) ==
    \/ conns[c].st = "idle"
    \/ /\ conns[c].st = "closed"
       /\ \A c2 \in ConnIds : conns[c2].st # "idle"
       /\ \A c2 \in ConnIds : conns[c2].st = "closed" => c <= c2

\* the connection a transaction gets: the idle one, or a fresh one when the
\* slot was closed or the idle connection has outlived SetConnMaxLifetime
\* (database/sql closes an expired connection when it is next asked for)
TakeConn(c, expired) ==
    IF conns[c].st = "idle" /\ ~expired THEN [conns EXCEPT ![c].st = "busy"]
    ELSE [conns EXCEPT ![c] = [st |-> "busy",
                               fk |-> driverSpecificInit(driver)]]

ReleaseConn(c) == [conns EXCEPT ![c].st = "idle"]

\* the handler has returned to its caller: its locals are gone
HandlerReturns(p) ==
    /\ pc' = [pc EXCEPT ![p] = "idle"]
    /\ call' = [call EXCEPT ![p] = NoCall]
    /\ err' = [err EXCEPT ![p] = "none"]
    /\ got' = [got EXCEPT ![p] = NoGot]
    /\ pre' = [pre EXCEPT ![p] = db]

(***************************************************************************)
(* The handlers: Create, Update, Delete, Clear, GetParsedResource.         *)
(***************************************************************************)
Statements(c) ==
    LET obj == objectParser(c.rt, c.raw) IN
    CASE c.kind = "Create" -> create(c.tenant, c.rt, obj)
      [] c.kind = "Update" -> update(c.tenant, c.rt, c.id, obj)
      [] c.kind = "Delete" -> delete(c.tenant, c.rt, c.id)
      [] c.kind = "Clear" -> ClearStmts(c.tenant)
      [] c.kind = "Get" -> GetParsedResourceStmts(c.tenant, c.rt, c.id)
      [] OTHER -> <<>>

\* a call of a handler starts; Create and Update parse the body before any
\* transaction is opened
Call(p, c) ==
    /\ pc[p] \in {"idle", "done"}
    /\ call' = [call EXCEPT ![p] = c]
    /\ pre' = [pre EXCEPT ![p] = db]
    /\ got' = [got EXCEPT ![p] = NoGot]
    /\ IF c.kind \in {"Create", "Update"} /\ ~objectParser(c.rt, c.raw).ok
       THEN /\ pc' = [pc EXCEPT ![p] = "done"]
            /\ err' = [err EXCEPT ![p] = "MalformedResource"]
       ELSE /\ pc' = [pc EXCEPT ![p] = "begin"]
            /\ err' = [err EXCEPT ![p] = "none"]
    /\ UNCHANGED <<importVars, schema, driver, focus, db, conns, tx, stmts, nfail, log>>

\* tx, err := backend.db.Beginx()
Begin(p, c) ==
    /\ pc[p] = "begin"
    /\ CanTake(c)
    /\ \E expired \in BOOLEAN : conns' = TakeConn(c, expired)
    /\ tx' = [tx EXCEPT ![p] = [active |-> TRUE, conn |-> c,
                                fk |-> conns'[c].fk, wrote |-> FALSE,
                                delta |-> EmptyDelta]]
    /\ stmts' = [stmts EXCEPT ![p] = Statements(call[p])]
    /\ pc' = [pc EXCEPT ![p] = "run"]
    /\ UNCHANGED <<importVars, schema, driver, focus, db, call, err, got, pre, ncalls, nfail,
                   bulk, log>>

\* another open transaction holds a write lock the statement needs: SQLite
\* admits one writer, the other engines lock the rows written
LockConflict(p, st, keys) ==
    /\ st.s \in WriteKinds
    /\ \E q \in Procs \ {p} :
          /\ tx[q].active
          /\ tx[q].wrote
          /\ \/ driver = "sqlite"
             \/ keys \cap (DOMAIN tx[q].delta.main
                           \cup DOMAIN tx[q].delta.child) # {}

\* what the reader has assembled after a SELECT
Read(g, v, st) ==
    LET k == <<st.tenant, st.table, st.id>> IN
    CASE st.s = "selectMain" -> [g EXCEPT !.val = v.main[k]]
      [] st.s = "selectChild" ->
            [g EXCEPT !.kids = (st.table :> v.child[k]) @@ g.kids]
      [] OTHER -> g

\* len(objs) != 1 in the ReaderOne functions
ReadErr(v, st) ==
    IF st.s = "selectMain" /\ v.main[<<st.tenant, st.table, st.id>>] = NoRow
    THEN "infra" ELSE "none"

\* a statement issued outside the transaction, on backend.db: its writes are
\* committed at once
DbExec(store, delta) == View(store, delta)

\* the statements are issued on tx (tx.NamedExec, tx.PrepareNamed): what
\* they write is not in the committed store before Commit
TxExec(store, delta) == store

\* the next statement of the call runs inside its transaction; on an error
\* the handler returns and the deferred tx.Rollback() drops the write set
ExecStmt(p) ==
    /\ pc[p] = "run"
    /\ stmts[p] # <<>>
    /\ LET st == Head(stmts[p])
           v == View(db, tx[p].delta)
           r == ApplyStmt(db, tx[p].delta, tx[p].fk, st)
           e == IF r.err # "none" THEN r.err ELSE ReadErr(v, st)
       IN
       /\ ~LockConflict(p, st, Touches(v, st, tx[p].fk))
       /\ IF e # "none"
          THEN /\ err' = [err EXCEPT ![p] = e]
               /\ tx' = [tx EXCEPT ![p] = NoTx]
               /\ conns' = ReleaseConn(tx[p].conn)
               /\ stmts' = [stmts EXCEPT ![p] = <<>>]
               /\ pc' = [pc EXCEPT ![p] = "done"]
               /\ got' = got
               /\ db' = db
          ELSE /\ err' = err
               /\ db' = TxExec(db, r.delta)
               /\ tx' = [tx EXCEPT ![p].delta = r.delta,
                                   ![p].wrote = @ \/ st.s \in WriteKinds]
               /\ conns' = conns
               /\ stmts' = [stmts EXCEPT ![p] = Tail(@)]
               /\ pc' = [pc EXCEPT ![p] =
                           IF Tail(stmts[p]) = <<>> THEN "commit" ELSE "run"]
               /\ got' = [got EXCEPT ![p] = Read(@, v, st)]
    /\ UNCHANGED <<importVars, schema, driver, focus, call, pre, ncalls, nfail, bulk, log>>

\* a commit of the Bulk call in progress: the operations lo..hi of its list,
\* made on a connection with foreign-key enforcement fk, and the committed
\* store right after it
LogEntry(lo, hi, fk, after) ==
    [lo |-> lo, hi |-> hi, fk |-> fk, after |-> after]

\* tx.Commit() succeeds: the write set becomes visible in one step
Commit(p) ==
    /\ pc[p] = "commit"
    /\ db' = View(db, tx[p].delta)
    /\ conns' = ReleaseConn(tx[p].conn)
    /\ tx' = [tx EXCEPT ![p] = NoTx]
    /\ pc' = [pc EXCEPT ![p] = "done"]
    /\ log' = IF bulk.pc \in {"single", "replaying"}
              THEN Append(log, LogEntry(bulk.i, bulk.i, tx[p].fk,
                                        View(db, tx[p].delta)))
              ELSE log
    /\ UNCHANGED <<importVars, schema, driver, focus, call, stmts, err, got, pre, ncalls, nfail,
                   bulk>>

\* tx.Commit() returns an error: nothing of the transaction is kept
CommitFail(p) ==
    /\ pc[p] = "commit"
    /\ nfail < MaxCommitFail
    /\ nfail' = nfail + 1
    /\ conns' = ReleaseConn(tx[p].conn)
    /\ tx' = [tx EXCEPT ![p] = NoTx]
    /\ err' = [err EXCEPT ![p] = "infra"]
    /\ pc' = [pc EXCEPT ![p] = "done"]
    /\ UNCHANGED <<importVars, schema, driver, focus, db, call, stmts, got, pre, ncalls, bulk,
                   log>>

\* the requests served one after the other in Spec: every request for the
\* first tenant, and for every other tenant the requests on the id "a" that
\* both tenants use
WriterCalls ==
    {CallRec("Create", "t1", focus, NoId, r) : r \in RawBodies(focus)}
    \cup {CallRec("Update", "t1", focus, i, r) :
            i \in Ids, r \in RawBodies(focus)}
    \cup {CallRec("Delete", "t1", focus, i, NoRaw) : i \in Ids}
    \cup {CallRec("Create", t, focus, NoId,
                  Raw("a", "v2", NoKids(focus), NoGroup, FALSE)) :
            t \in Tenants \ {"t1"}}
    \cup {CallRec("Delete", t, focus, "a", NoRaw) : t \in Tenants \ {"t1"}}
    \cup {CallRec("Clear", t, focus, NoId, NoRaw) : t \in Tenants}

\* the SCIM server hands a request to the backend
Request(c) ==
    /\ ncalls < MaxCalls
    /\ ncalls' = ncalls + 1
    /\ Call("p1", c)
    /\ UNCHANGED bulk

Next ==
    \/ /\ ncalls < MaxCalls
       /\ pc["p1"] \in {"idle", "done"}
       /\ \E c \in WriterCalls : Request(c)
    \/ \E c \in ConnIds : Begin("p1", c)
    \/ ExecStmt("p1")
    \/ Commit("p1")
    \/ CommitFail("p1")

Spec == Init /\ [][Next]_vars

(***************************************************************************)
(* SpecConc: one writing request and one reading request on the same       *)
(* entity, served by two handlers at the same time.                        *)
(***************************************************************************)
ConcWrites ==
    LET X == [c \in ChildTablesOf(focus) |-> <<"x">>]
        YX == [c \in ChildTablesOf(focus) |->
                 IF c = objectMutator[focus][1] THEN <<"y", "x">> ELSE <<>>]
    IN
    {CallRec("Create", "t1", focus, NoId, Raw("a", "v1", X, NoGroup, FALSE)),
     CallRec("Update", "t1", focus, "a", Raw("a", "v2", YX, NoGroup, FALSE)),
     CallRec("Update", "t1", focus, "a", Raw("b", "v1", X, NoGroup, FALSE)),
     CallRec("Delete", "t1", focus, "a", NoRaw)}

ConcReads == {CallRec("Get", "t1", focus, "a", NoRaw)}

\* each handler serves one request
Serve(p, c) ==
    /\ pc[p] = "idle"
    /\ Call(p, c)
    /\ UNCHANGED <<ncalls, bulk>>

NextConc ==
    \/ /\ pc["p1"] = "idle"
       /\ \E c \in ConcWrites : Serve("p1", c)
    \/ /\ pc["p2"] = "idle"
       /\ \E c \in ConcReads : Serve("p2", c)
    \/ \E p \in Procs : \E c \in ConnIds : Begin(p, c)
    \/ \E p \in Procs : ExecStmt(p)
    \/ \E p \in Procs : Commit(p)
    \/ \E p \in Procs : CommitFail(p)

SpecConc == Init /\ [][NextConc]_vars

(***************************************************************************)
(* Bulk.  The recursion of SQLBackend.Bulk is kept as the list bulk.todo   *)
(* of the invocations still to run: its head is the invocation in progress *)
(* (the operations lo..hi of the list), the others are the invocations the *)
(* callers make after it, in call order.  bulk.acc is the resultList of    *)
(* the invocation in progress and bulk.res the concatenation of the lists  *)
(* returned so far.                                                        *)
(***************************************************************************)
TransactionMaxSize == 50

BulkOperation(kind, rt, id, raw) ==
    [kind |-> kind, rt |-> rt, id |-> id, raw |-> raw]

\* a result that drops the error of its operation
ResultWithoutError(op, e) ==
    [rt |-> op.rt, id |-> op.id, kind |-> op.kind, err |-> "none"]

NewBulkOperationResult(op, e) ==
    [rt |-> op.rt, id |-> op.id, kind |-> op.kind, err |-> e]

\* the call backend.Create / Update / Delete that an operation stands for
OpCall(op) == CallRec(op.kind, bulk.tenant, op.rt, op.id, op.raw)

Range2(lo, hi) == [lo |-> lo, hi |-> hi]
Size(r) == r.hi - r.lo + 1

\* the three sub-batches that forget that Rollback undid the operations
\* before the failing one
SplitAtSkipDone(lo, i, hi) == <<Range2(i, i), Range2(i + 1, hi)>>

\* the three sub-batches run last to first
SplitAtReversed(lo, i, hi) ==
    <<Range2(i + 1, hi), Range2(i, i), Range2(lo, i - 1)>>

\* two sub-batches: the failing operation stays with the ones after it
SplitInTwo(lo, i, hi) == <<Range2(lo, i - 1), Range2(i, hi)>>

\* operations[0:i], operations[i:i+1], operations[i+1:]
SplitAt(lo, i, hi) ==
    <<Range2(lo, i - 1), Range2(i, i), Range2(i + 1, hi)>>

\* a resultList that keeps the results recorded before the failure
ResultsKept(acc) == acc

\* resultList = append(listA, listB...): the results recorded before the
\* failure are dropped
ResultsAfterSplit(acc) == <<>>

\* two halves that share the operation in the middle
HalvesOverlap(lo, hi) ==
    LET mid == Size(Range2(lo, hi)) \div 2 IN
    <<Range2(lo, lo + mid), Range2(lo + mid, hi)>>

\* operations[0:mid], operations[mid:]
Halves(lo, hi) ==
    LET mid == Size(Range2(lo, hi)) \div 2 IN
    <<Range2(lo, lo + mid - 1), Range2(lo + mid, hi)>>

\* ctx.Err().Error() of a context that is done
CtxErrs == {"context canceled", "context deadline exceeded"}

\* an IsDone that never sees the context done
IsDoneNever(ctx) == [ok |-> FALSE, msg |-> ""]

\* util.IsDone(ctx): whether ctx.Done() is closed, and ctx.Err().Error()
IsDone(ctx) ==
    IF ctx = "live" THEN [ok |-> FALSE, msg |-> ""]
    ELSE [ok |-> TRUE, msg |-> ctx]

BulkVarsUnchanged ==
    UNCHANGED <<importVars, schema, driver, focus, db, conns, pc, call, tx, stmts, err, got, pre,
                ncalls, nfail, log>>

\* Bulk(ctx, tenant, operations) is called
BulkCall(t, ops) ==
    /\ bulk.pc = "idle"
    /\ pc["p1"] = "idle"
    /\ bulk' = [NoBulk EXCEPT !.pc = "enter", !.tenant = t, !.ops = ops,
                              !.todo = <<Range2(1, Len(ops))>>,
                              !.start = db]
    /\ BulkVarsUnchanged

\* an invocation of Bulk begins: the head of bulk.todo
Enters == bulk.pc = "enter" /\ bulk.todo # <<>>

\* the caller cancels the context or its deadline passes.  Bulk reads the
\* context at the start of an invocation only, so a context that becomes
\* done at any time since the previous read is seen here as done
CtxDone ==
    /\ Enters
    /\ bulk.ctx = "live"
    /\ \E e \in CtxErrs : bulk' = [bulk EXCEPT !.ctx = e]
    /\ BulkVarsUnchanged

\* util.IsDone(ctx) at the start of an invocation: the invocation returns
\* nil and an error, and so does every caller up to the outermost one
BulkCancelled ==
    /\ Enters
    /\ IsDone(bulk.ctx).ok
    /\ bulk' = [bulk EXCEPT !.pc = "returned",
                            !.err = "Bulk operation terminated prematurely",
                            !.msg = IsDone(bulk.ctx).msg,
                            !.res = <<>>, !.todo = <<>>]
    /\ BulkVarsUnchanged

\* bulkSize == 0
BulkEmpty ==
    /\ Enters
    /\ ~IsDone(bulk.ctx).ok
    /\ Size(Head(bulk.todo)) = 0
    /\ bulk' = [bulk EXCEPT !.todo = Tail(@)]
    /\ BulkVarsUnchanged

\* bulkSize == 1: the operation is handed to Create, Update or Delete
BulkSingle ==
    /\ Enters
    /\ ~IsDone(bulk.ctx).ok
    /\ Size(Head(bulk.todo)) = 1
    /\ bulk' = [bulk EXCEPT !.pc = "single", !.i = Head(bulk.todo).lo]
    /\ Call("p1", OpCall(bulk.ops[Head(bulk.todo).lo]))
    /\ UNCHANGED ncalls

BulkSingleDone ==
    /\ bulk.pc = "single"
    /\ pc["p1"] = "done"
    /\ bulk' = [bulk EXCEPT
                  !.pc = "enter",
                  !.res = Append(@, NewBulkOperationResult(bulk.ops[bulk.i],
                                                           err["p1"])),
                  !.todo = Tail(@)]
    /\ HandlerReturns("p1")
    /\ UNCHANGED <<importVars, schema, driver, focus, db, conns, tx, stmts, ncalls, nfail, log>>

\* bulkSize > TransactionMaxSize
BulkHalve ==
    /\ Enters
    /\ ~IsDone(bulk.ctx).ok
    /\ Size(Head(bulk.todo)) > TransactionMaxSize
    /\ bulk' = [bulk EXCEPT
                  !.todo = Halves(Head(@).lo, Head(@).hi) \o Tail(@)]
    /\ BulkVarsUnchanged

\* tx, err := backend.db.Beginx() for a batch of 2..TransactionMaxSize
BulkBegin(c) ==
    /\ Enters
    /\ ~IsDone(bulk.ctx).ok
    /\ Size(Head(bulk.todo)) > 1
    /\ Size(Head(bulk.todo)) <= TransactionMaxSize
    /\ CanTake(c)
    /\ \E expired \in BOOLEAN : conns' = TakeConn(c, expired)
    /\ tx' = [tx EXCEPT !["p1"] = [active |-> TRUE, conn |-> c,
                                   fk |-> conns'[c].fk, wrote |-> FALSE,
                                   delta |-> EmptyDelta]]
    /\ bulk' = [bulk EXCEPT !.pc = "tx", !.i = Head(bulk.todo).lo,
                            !.acc = <<>>]
    /\ UNCHANGED <<importVars, schema, driver, focus, db, pc, call, stmts, err, got, pre, ncalls,
                   nfail, log>>

\* one operation of the loop, run on the transaction of the batch: the body
\* is parsed, then create / update / delete run on tx
OpInTx(op) ==
    IF op.kind \in {"Create", "Update"} /\ ~objectParser(op.rt, op.raw).ok
    THEN StmtResult(tx["p1"].delta, "MalformedResource")
    ELSE RunStmts(db, tx["p1"].delta, tx["p1"].fk, Statements(OpCall(op)))

InLoop ==
    /\ bulk.pc = "tx"
    /\ bulk.i <= Head(bulk.todo).hi

\* err == nil: the result is recorded and the loop goes on
BulkOpOk ==
    /\ InLoop
    /\ LET op == bulk.ops[bulk.i]
           r == OpInTx(op)
       IN
       /\ r.err = "none"
       /\ tx' = [tx EXCEPT !["p1"].delta = r.delta]
       /\ bulk' = [bulk EXCEPT
                     !.i = @ + 1,
                     !.acc = Append(@, NewBulkOperationResult(op, "none"))]
    /\ UNCHANGED <<importVars, schema, driver, focus, db, conns, pc, call, stmts, err, got, pre,
                   ncalls, nfail, log>>

\* err != nil and i == 0: tx.Rollback(), the failure is the result of the
\* operation and the rest of the batch is a new invocation
BulkOpFailFirst ==
    /\ InLoop
    /\ bulk.i = Head(bulk.todo).lo
    /\ LET op == bulk.ops[bulk.i]
           r == OpInTx(op)
       IN
       /\ r.err # "none"
       /\ bulk' = [bulk EXCEPT
                     !.pc = "enter",
                     !.res = Append(@, NewBulkOperationResult(op, r.err)),
                     !.acc = <<>>,
                     !.todo = <<Range2(bulk.i + 1, Head(@).hi)>> \o Tail(@)]
    /\ tx' = [tx EXCEPT !["p1"] = NoTx]
    /\ conns' = ReleaseConn(tx["p1"].conn)
    /\ UNCHANGED <<importVars, schema, driver, focus, db, pc, call, stmts, err, got, pre, ncalls,
                   nfail, log>>

\* err != nil and i > 0: tx.Rollback(), then the operations before the
\* failure, the failing one and the rest are three new invocations
BulkOpFailLater ==
    /\ InLoop
    /\ bulk.i > Head(bulk.todo).lo
    /\ OpInTx(bulk.ops[bulk.i]).err # "none"
    /\ bulk' = [bulk EXCEPT
                  !.pc = "enter",
                  !.res = @ \o ResultsAfterSplit(bulk.acc),
                  !.acc = <<>>,
                  !.todo = SplitAt(Head(@).lo, bulk.i, Head(@).hi)
                           \o Tail(@)]
    /\ tx' = [tx EXCEPT !["p1"] = NoTx]
    /\ conns' = ReleaseConn(tx["p1"].conn)
    /\ UNCHANGED <<importVars, schema, driver, focus, db, pc, call, stmts, err, got, pre, ncalls,
                   nfail, log>>

\* tx.Commit() == nil: the batch is stored and its resultList returned
BulkCommit ==
    /\ bulk.pc = "tx"
    /\ bulk.i > Head(bulk.todo).hi
    /\ db' = View(db, tx["p1"].delta)
    /\ log' = Append(log, LogEntry(Head(bulk.todo).lo, Head(bulk.todo).hi,
                                   tx["p1"].fk, View(db, tx["p1"].delta)))
    /\ bulk' = [bulk EXCEPT !.pc = "enter", !.res = @ \o bulk.acc,
                            !.acc = <<>>, !.todo = Tail(@)]
    /\ tx' = [tx EXCEPT !["p1"] = NoTx]
    /\ conns' = ReleaseConn(tx["p1"].conn)
    /\ UNCHANGED <<importVars, schema, driver, focus, pc, call, stmts, err, got, pre, ncalls,
                   nfail>>

\* a failed Commit that has stored the batch all the same
BulkCommitFailStored ==
    /\ bulk.pc = "tx"
    /\ bulk.i > Head(bulk.todo).hi
    /\ nfail < MaxCommitFail
    /\ nfail' = nfail + 1
    /\ db' = View(db, tx["p1"].delta)
    /\ bulk' = [bulk EXCEPT !.pc = "replay", !.i = Head(bulk.todo).lo,
                            !.acc = <<>>]
    /\ tx' = [tx EXCEPT !["p1"] = NoTx]
    /\ conns' = ReleaseConn(tx["p1"].conn)
    /\ UNCHANGED <<importVars, schema, driver, focus, pc, call, stmts, err,
                   got, pre, ncalls, log>>

\* tx.Commit() != nil: nothing is stored and the operations of the batch are
\* run again one by one
BulkCommitFail ==
    /\ bulk.pc = "tx"
    /\ bulk.i > Head(bulk.todo).hi
    /\ nfail < MaxCommitFail
    /\ nfail' = nfail + 1
    /\ bulk' = [bulk EXCEPT !.pc = "replay", !.i = Head(bulk.todo).lo,
                            !.acc = <<>>]
    /\ tx' = [tx EXCEPT !["p1"] = NoTx]
    /\ conns' = ReleaseConn(tx["p1"].conn)
    /\ UNCHANGED <<importVars, schema, driver, focus, db, pc, call, stmts, err, got, pre, ncalls,
                   log>>

\* the loop after a failed Commit: backend.Create / Update / Delete
BulkReplayCall ==
    /\ bulk.pc = "replay"
    /\ bulk.i <= Head(bulk.todo).hi
    /\ bulk' = [bulk EXCEPT !.pc = "replaying"]
    /\ Call("p1", OpCall(bulk.ops[bulk.i]))
    /\ UNCHANGED ncalls

BulkReplayDone ==
    /\ bulk.pc = "replaying"
    /\ pc["p1"] = "done"
    /\ bulk' = [bulk EXCEPT
                  !.pc = "replay",
                  !.i = @ + 1,
                  !.acc = Append(@, NewBulkOperationResult(bulk.ops[bulk.i],
                                                           err["p1"]))]
    /\ HandlerReturns("p1")
    /\ UNCHANGED <<importVars, schema, driver, focus, db, conns, tx, stmts, ncalls, nfail, log>>

BulkReplayEnd ==
    /\ bulk.pc = "replay"
    /\ bulk.i > Head(bulk.todo).hi
    /\ bulk' = [bulk EXCEPT !.pc = "enter", !.res = @ \o bulk.acc,
                            !.acc = <<>>, !.todo = Tail(@)]
    /\ BulkVarsUnchanged

\* the outermost invocation returns its result list
BulkReturn ==
    /\ bulk.pc = "enter"
    /\ bulk.todo = <<>>
    /\ bulk' = [bulk EXCEPT !.pc = "returned"]
    /\ BulkVarsUnchanged

(***************************************************************************)
(* SpecBulk: possibly a Clear, then one Bulk call.                         *)
(***************************************************************************)
\* the operations the lists are made of
BulkOps(rt) ==
    LET X == [c \in ChildTablesOf(rt) |-> <<"x">>]
        YX == [c \in ChildTablesOf(rt) |->
                 IF c = objectMutator[rt][1] THEN <<"y", "x">> ELSE <<>>]
    IN
    {BulkOperation("Create", rt, NoId, Raw("a", "v1", X, NoGroup, FALSE)),
     BulkOperation("Create", rt, NoId,
                   Raw("a", Missing, NoKids(rt), NoGroup, FALSE)),
     BulkOperation("Update", rt, "a", Raw("a", "v2", YX, NoGroup, FALSE)),
     BulkOperation("Delete", rt, "a", NoRaw)}

\* all lists of at most n operations
RECURSIVE OpLists(_, _)
OpLists(rt, n) ==
    IF n = 0 THEN {<<>>}
    ELSE LET shorter == OpLists(rt, n - 1) IN
         shorter \cup {Append(l, o) : l \in shorter, o \in BulkOps(rt)}

\* a list that is one operation longer than a transaction may be: b is
\* created and deleted in turn
LongOps(rt) ==
    [k \in 1..(TransactionMaxSize + 1) |->
        IF k % 2 = 1
        THEN BulkOperation("Create", rt, NoId,
                           Raw("b", "v2", NoKids(rt), NoGroup, FALSE))
        ELSE BulkOperation("Delete", rt, "b", NoRaw)]

\* a list that has to be halved twice
LongerOps(rt) ==
    [k \in 1..(2 * TransactionMaxSize + 1) |->
        LongOps(rt)[IF k % 2 = 1 THEN 1 ELSE 2]]

\* the lists Bulk is called with; the long lists are run on the drivers
\* whose connections are all alike
BulkInputs ==
    OpLists(focus, MaxOps)
    \cup (IF driver = "sqlite" THEN {}
         ELSE {LongOps(focus), LongerOps(focus)})

\* the resource type of the lists: the one with the most owned collections
BulkTypes == {"Users"}

InitBulk ==
    /\ focus \in BulkTypes
    /\ db = SeedStore
    /\ InitBackend
    /\ Migrated
    /\ ImportIdle

\* Clear(tenant) is called before Bulk
ClearBeforeBulk(t) ==
    /\ bulk.pc = "idle"
    /\ Serve("p1", CallRec("Clear", t, focus, NoId, NoRaw))

ClearReturns ==
    /\ bulk.pc = "idle"
    /\ pc["p1"] = "done"
    /\ HandlerReturns("p1")
    /\ UNCHANGED <<importVars, schema, driver, focus, db, conns, tx, stmts, ncalls, nfail, bulk,
                   log>>

NextBulk ==
    \/ /\ bulk.pc = "idle"
       /\ pc["p1"] = "idle"
       /\ \E ops \in BulkInputs : BulkCall("t1", ops)
    \/ CtxDone
    \/ BulkCancelled
    \/ BulkEmpty
    \/ BulkSingle
    \/ BulkSingleDone
    \/ BulkHalve
    \/ \E c \in ConnIds : BulkBegin(c)
    \/ BulkOpOk
    \/ BulkOpFailFirst
    \/ BulkOpFailLater
    \/ BulkCommit
    \/ BulkCommitFail
    \/ BulkReplayCall
    \/ BulkReplayDone
    \/ BulkReplayEnd
    \/ BulkReturn
    \/ ClearBeforeBulk("t1")
    \/ ClearReturns
    \/ \E c \in ConnIds : Begin("p1", c)
    \/ ExecStmt("p1")
    \/ Commit("p1")
    \/ CommitFail("p1")

SpecBulk == InitBulk /\ [][NextBulk]_vars

(***************************************************************************)
(* SpecTenants: Clear calls for either tenant, then one Bulk call for the  *)
(* second tenant, on a store in which both tenants hold the same ids.      *)
(***************************************************************************)
\* the lists of the Bulk call: the short ones, and the long one on the
\* drivers whose connections are all alike
TenantInputs ==
    OpLists(focus, MaxOps - 1)
    \cup (IF driver = "sqlite" THEN {} ELSE {LongOps(focus)})

NextTenants ==
    \/ /\ bulk.pc = "idle"
       /\ pc["p1"] = "idle"
       /\ \E ops \in TenantInputs : BulkCall("t2", ops)
    \/ CtxDone
    \/ BulkCancelled
    \/ BulkEmpty
    \/ BulkSingle
    \/ BulkSingleDone
    \/ BulkHalve
    \/ \E c \in ConnIds : BulkBegin(c)
    \/ BulkOpOk
    \/ BulkOpFailFirst
    \/ BulkOpFailLater
    \/ BulkCommit
    \/ BulkCommitFail
    \/ BulkReplayCall
    \/ BulkReplayDone
    \/ BulkReplayEnd
    \/ BulkReturn
    \/ \E t \in Tenants : ClearBeforeBulk(t)
    \/ ClearReturns
    \/ \E c \in ConnIds : Begin("p1", c)
    \/ ExecStmt("p1")
    \/ Commit("p1")
    \/ CommitFail("p1")

SpecTenants == InitBulk /\ [][NextTenants]_vars

(***************************************************************************)
(* Reading an entity back from a store: GetParsedResource run to its end   *)
(* on the committed rows.                                                  *)
(***************************************************************************)
RECURSIVE ReadAll(_, _, _)
ReadAll(g, v, ss) ==
    IF ss = <<>> THEN g ELSE ReadAll(Read(g, v, Head(ss)), v, Tail(ss))

GetParsedResource(store, tenant, rt, id) ==
    ReadAll(NoGot, store, GetParsedResourceStmts(tenant, rt, id))

(***************************************************************************)
(* Properties of the single-entity operations (specification Spec).        *)
(***************************************************************************)
\* the call the handler has served last, its parsed body and the key of the
\* primary row its id argument names
Cur == call["p1"]
CurObj == objectParser(Cur.rt, Cur.raw)
Returned(kind) == pc["p1"] = "done" /\ Cur.kind = kind
Before == pre["p1"]
KeyOf(id) == <<Cur.tenant, Cur.rt, id>>
Parent(c) == <<c[1], migrations[c[2]], c[3]>>

\* C3 as stated: a Create whose id already exists for the tenant and type
\* returns Conflict and leaves the store as it was, whatever the body
C3_AsStated ==
    (Returned("Create") /\ Before.main[KeyOf(Cur.raw.id)] # NoRow)
        => (err["p1"] = "Conflict" /\ db = Before)

\* C3: a Create with a body that parses, whose id already exists for the
\* tenant and type, returns Conflict and leaves the stored entity and all
\* child rows unchanged; when the id does not exist for that tenant (it may
\* exist for another one) the Create is not refused as a conflict and, unless
\* the commit itself failed, the entity is stored
C3_CreateConflict ==
    (Returned("Create") /\ CurObj.ok) =>
        IF Before.main[KeyOf(CurObj.id)] # NoRow
        THEN err["p1"] = "Conflict" /\ db = Before
        ELSE /\ err["p1"] \in {"none", "infra"}
             /\ err["p1"] = "infra" => nfail > 0
             /\ err["p1"] = "none" => db.main[KeyOf(CurObj.id)] = CurObj.val

\* a Create was refused with Conflict while the entity it collided with has
\* child rows
C3_Witness ==
    /\ Returned("Create") /\ CurObj.ok
    /\ err["p1"] = "Conflict"
    /\ Cur.rt = "Users"
    /\ \A c \in ChildKeysOf(Cur.tenant, Cur.rt, CurObj.id) : db.child[c] # <<>>

\* C4 as stated: Update and Delete of an id that is absent for the tenant and
\* type return MissingResource and change nothing, whatever the body
C4_AsStated ==
    ((Returned("Update") \/ Returned("Delete"))
        /\ Before.main[KeyOf(Cur.id)] = NoRow)
        => (err["p1"] = "MissingResource" /\ db = Before)

\* C4: Delete, and Update with a body that parses, return MissingResource
\* and change nothing when no entity with the id exists for the tenant and
\* type, also when the id exists under another tenant only
C4_MissingResource ==
    ((Returned("Delete") \/ (Returned("Update") /\ CurObj.ok))
        /\ Before.main[KeyOf(Cur.id)] = NoRow)
        => (err["p1"] = "MissingResource" /\ db = Before)

\* an Update was refused with MissingResource for an id that this tenant had
\* held and lost, while another tenant still holds it
C4_Witness ==
    /\ Returned("Update") /\ CurObj.ok
    /\ err["p1"] = "MissingResource"
    /\ ncalls = 2
    /\ Before.main[KeyOf(Cur.id)] = NoRow
    /\ \E t \in Tenants \ {Cur.tenant} :
          Before.main[<<t, Cur.rt, Cur.id>>] # NoRow

\* C7 as stated: a successful Delete leaves no child row of the deleted
\* (tenant, id) and removes no other primary entity, and in no state is
\* there a child row without its parent row
C7_DeleteCascades ==
    /\ (Returned("Delete") /\ err["p1"] = "none") =>
          /\ \A c \in ChildKeysOf(Cur.tenant, Cur.rt, Cur.id) :
                db.child[c] = <<>>
          /\ \A k \in MainKeys \ {KeyOf(Cur.id)} : db.main[k] = Before.main[k]
    /\ \A c \in ChildKeys : db.child[c] # <<>> => db.main[Parent(c)] # NoRow

\* C8 as stated: after a successful Update every owned collection of the
\* entity holds exactly the elements of the new body, and no child row is
\* without its parent
C8_UpdateReplaces ==
    (Returned("Update") /\ err["p1"] = "none") =>
        /\ \A t \in ChildTablesOf(Cur.rt) :
              db.child[<<Cur.tenant, t, Cur.id>>] = CurObj.kids[t]
        /\ \A c \in ChildKeys :
              db.child[c] # <<>> => db.main[Parent(c)] # NoRow

\* C9 as stated: after a successful Create(T, B) or Update(T, id(B), B) the
\* entity read back under B's id equals the parsed B
C9_RoundTrip ==
    ((Returned("Create") \/ (Returned("Update") /\ Cur.id = CurObj.id))
        /\ err["p1"] = "none")
        => LET g == GetParsedResource(db, Cur.tenant, Cur.rt, CurObj.id) IN
           /\ g.val = CurObj.val
           /\ \A t \in ChildTablesOf(Cur.rt) : g.kids[t] = CurObj.kids[t]
           /\ ~CurObj.extra

(***************************************************************************)
(* Properties of concurrent requests (specification SpecConc).             *)
(***************************************************************************)
\* the store s with its rows written out: the same value, computed once
\* and not row by row at each later lookup
Rows(s) == IF s = s THEN s ELSE s

\* the store after all statements of call c have run on store and committed
\* on a connection whose foreign-key enforcement is fk
Effect(store, c, fk) ==
    Rows(View(store, RunStmts(store, EmptyDelta, fk, Statements(c)).delta))

\* C6: while a Create, Update or Delete is under way the committed store is
\* the one from before the call; when the call fails the store is still that
\* one; when it succeeds the store holds all writes of all its statements;
\* and each child collection a concurrent reader has fetched is the
\* collection as it was before the call or as the call left it, never a
\* collection whose rows were deleted and not yet reinserted
C6_Atomic ==
    /\ pc["p1"] \in {"begin", "run", "commit"} => db = Before
    /\ (pc["p1"] = "done" /\ err["p1"] # "none") => db = Before
    /\ (pc["p1"] = "done" /\ err["p1"] = "none") =>
          \E fk \in BOOLEAN : db = Effect(Before, Cur, fk)
    /\ \A t \in DOMAIN got["p2"].kids :
          LET k == <<call["p2"].tenant, t, call["p2"].id>> IN
          got["p2"].kids[t] \in {Before.child[k], db.child[k]}

\* the reader fetched the first collection of the entity after an Update had
\* deleted and reinserted it in its transaction and before the Update
\* committed, and got the rows from before the Update
C6_Witness ==
    /\ Cur.kind = "Update" /\ pc["p1"] = "commit"
    /\ tx["p1"].delta.child # <<>>
    /\ focus = "Users"
    /\ "Emails" \in DOMAIN got["p2"].kids
    /\ got["p2"].kids["Emails"] = <<"x">>
    /\ View(db, tx["p1"].delta).child[<<"t1", "Emails", "a">>] = <<"y", "x">>

(***************************************************************************)
(* Properties of Bulk (specifications SpecBulk and SpecTenants).           *)
(***************************************************************************)
\* the store after the operations lo..hi of the list have run in order and
\* committed on a connection whose foreign-key enforcement is fk
RECURSIVE ApplyOps(_, _, _, _)
ApplyOps(store, lo, hi, fk) ==
    IF lo > hi THEN store
    ELSE ApplyOps(Effect(store, OpCall(bulk.ops[lo]), fk), lo + 1, hi, fk)

\* the store is the store from the start of the Bulk call with the
\* operations of each commit applied, commit after commit
Replayed ==
    /\ \A j \in 1..Len(log) :
          log[j].after =
             ApplyOps(IF j = 1 THEN bulk.start ELSE log[j - 1].after,
                      log[j].lo, log[j].hi, log[j].fk)
    /\ db = IF log = <<>> THEN bulk.start ELSE log[Len(log)].after

BulkDone == bulk.pc = "returned" /\ bulk.err = "none"
Failed == {k \in 1..Len(bulk.res) : bulk.res[k].err # "none"}
Committed(k) == \E j \in 1..Len(log) : log[j].lo <= k /\ k <= log[j].hi

\* C1: when Bulk returns a result list in which exactly one operation has
\* an error, every other operation of the list is reported without error
\* and was committed, and the store is the store from before the call with
\* the effects of the committed operations applied in order
C1_OneFailure ==
    (BulkDone /\ Cardinality(Failed) = 1) =>
        /\ \A k \in (1..Len(bulk.ops)) \ Failed :
              /\ k <= Len(bulk.res)
              /\ bulk.res[k].err = "none"
              /\ Committed(k)
        /\ Replayed

\* of three operations the second failed; the first and the third are
\* stored, by two transactions
C1_Witness ==
    /\ BulkDone
    /\ Len(bulk.ops) = 3
    /\ Failed = {2}
    /\ Len(log) = 2
    /\ db # bulk.start

\* C2: when Bulk returns a result list, it has one result per operation and
\* the k-th result carries the kind, resource type and id of the k-th
\* operation
C2_OneResultPerOp ==
    BulkDone =>
        /\ Len(bulk.res) = Len(bulk.ops)
        /\ \A k \in 1..Len(bulk.res) :
              /\ bulk.res[k].kind = bulk.ops[k].kind
              /\ bulk.res[k].rt = bulk.ops[k].rt
              /\ bulk.res[k].id = bulk.ops[k].id

\* a list of three operations of three kinds whose last operation failed
\* after the first two had been recorded as done in the first transaction
C2_Witness ==
    /\ BulkDone
    /\ Len(bulk.ops) = 3
    /\ Failed = {3}
    /\ bulk.ops[1].kind # bulk.ops[2].kind
    /\ bulk.ops[2].kind # bulk.ops[3].kind
    /\ bulk.ops[1].kind # bulk.ops[3].kind

\* the tenant for which the operation in progress was issued
Actor == IF bulk.pc = "idle" THEN call["p1"].tenant ELSE bulk.tenant
RowsOf(store, t) ==
    [main |-> [k \in {m \in MainKeys : m[1] = t} |-> store.main[k]],
     child |-> [k \in {c \in ChildKeys : c[1] = t} |-> store.child[k]]]
\* store with the rows of all tenants but t removed
Only(store, t) ==
    [main |-> [k \in MainKeys |-> IF k[1] = t THEN store.main[k] ELSE NoRow],
     child |-> [k \in ChildKeys |->
                  IF k[1] = t THEN store.child[k] ELSE <<>>]]

\* C5: a step of a Create, Update, Delete, Bulk or Clear issued for tenant X
\* leaves the primary and child rows of every other tenant as they are; what
\* a read for X returns depends on the rows of X only; and when Clear(X) has
\* returned, X has no entity of any of the seven types
C5_TenantIsolation ==
    [][/\ \A y \in Tenants \ {Actor'} : RowsOf(db', y) = RowsOf(db, y)
       /\ \A x \in Tenants : \A i \in Ids :
             GetParsedResource(db', x, focus, i)
                = GetParsedResource(Only(db', x), x, focus, i)
       /\ (pc'["p1"] = "done" /\ call'["p1"].kind = "Clear"
             /\ err'["p1"] = "none")
             => \A k \in MainKeys :
                   k[1] = call'["p1"].tenant => db'.main[k] = NoRow]_vars

\* Clear(t2) and then a Bulk for t2 that stored something have run while
\* the other tenant holds an entity of every type
C5_Witness ==
    /\ BulkDone
    /\ bulk.tenant = "t2"
    /\ Len(bulk.ops) = 2
    /\ Failed = {}
    /\ db.main[<<"t2", focus, "a">>] = "v2"
    /\ \A k \in MainKeys : (k[1] = "t2" /\ k[2] # focus) => db.main[k] = NoRow
    /\ \A k \in MainKeys : (k[1] = "t1" /\ k[3] = "a") => db.main[k] = "v1"

Ordered(l) ==
    \A j, k \in 1..Len(l) : j < k => l[j].hi < l[k].lo

\* C10: inside a Bulk call the store changes only by commits; a commit
\* publishes, in one step, the effects of all the operations of its
\* transaction; and the commits happen in the order of the list: all
\* operations of an earlier commit precede all operations of a later one
C10_CommitOrder ==
    [][/\ (bulk.pc # "idle" /\ db' # db) =>
             /\ Len(log') = Len(log) + 1
             /\ LET e == log'[Len(log')] IN
                db' = ApplyOps(db, e.lo, e.hi, e.fk)
       /\ Ordered(log')]_vars

\* two operations were committed by one transaction and a later operation
\* by another one
C10_Witness ==
    /\ BulkDone
    /\ Len(log) = 2
    /\ log[1].hi > log[1].lo
    /\ db # bulk.start

\* C11: when the context is done at the start of an invocation of Bulk, the
\* next step of the call is its return: no connection is taken, no
\* transaction opened, no statement run and nothing committed, the error
\* carries the reason the context gives, and there is no result list; and a
\* call that returned an error returned no result list
C11_Cancelled ==
    [][/\ (Enters /\ bulk.ctx # "live") =>
             /\ bulk'.pc = "returned"
             /\ bulk'.err = "Bulk operation terminated prematurely"
             /\ bulk'.msg = bulk.ctx
             /\ bulk'.res = <<>>
             /\ UNCHANGED <<db, conns, tx, pc, call, stmts, log>>
       /\ (bulk'.pc = "returned" /\ bulk'.err # "none") => bulk'.res = <<>>
      ]_vars

\* the deadline passed before a recursive invocation, after an earlier
\* invocation of the same call had committed
C11_Witness ==
    /\ bulk.pc = "returned"
    /\ bulk.err = "Bulk operation terminated prematurely"
    /\ bulk.msg = "context deadline exceeded"
    /\ Len(log) = 1
    /\ Len(bulk.ops) = 3

\* the foreign-key enforcement a transaction can meet: that of the
\* connection of initDBConnection, or that of a connection the pool opened
FkChoices == {TRUE, driverSpecificInit(driver)}

\* backend.Create / Update / Delete run alone on store, in a transaction of
\* its own that commits: the store it leaves and the error it returns
RunAlone(store, c, fk) ==
    IF c.kind \in {"Create", "Update"} /\ ~objectParser(c.rt, c.raw).ok
    THEN [store |-> store, err |-> "MalformedResource"]
    ELSE LET r == RunStmts(store, EmptyDelta, fk, Statements(c)) IN
         IF r.err = "none"
         THEN [store |-> Rows(View(store, r.delta)), err |-> "none"]
         ELSE [store |-> store, err |-> r.err]

\* running the operations k.. of the list one at a time in input order on
\* store, each in its own transaction, can return the errors of the results
\* k.. and leave the store db
RECURSIVE OneAtATime(_, _)
OneAtATime(store, k) ==
    IF k > Len(bulk.ops) THEN store = db
    ELSE \E fk \in FkChoices :
            LET r == RunAlone(store, OpCall(bulk.ops[k]), fk) IN
            /\ k <= Len(bulk.res)
            /\ r.err = bulk.res[k].err
            /\ OneAtATime(r.store, k + 1)

\* the call met no commit failure and no cancellation
Undisturbed == BulkDone /\ nfail = 0 /\ bulk.ctx = "live"

\* C25: when a Bulk call that met no commit failure and no cancellation
\* returns, the store and the error kinds of its results, operation by
\* operation, are those of running the operations one at a time in input
\* order on the store from the start of the call, each in its own
\* transaction
C25_AsSequential ==
    Undisturbed =>
        /\ Len(bulk.res) = Len(bulk.ops)
        /\ OneAtATime(bulk.start, 1)

\* of three operations the first and the last failed and the second was
\* stored
C25_Witness ==
    /\ Undisturbed
    /\ Len(bulk.ops) = 3
    /\ Failed = {1, 3}
    /\ Len(log) = 1
    /\ db # bulk.start

\* the operation the loop of the open transaction is at has failed, and it
\* is not the first of its batch
FailsLater ==
    /\ InLoop
    /\ bulk.i > Head(bulk.todo).lo
    /\ OpInTx(bulk.ops[bulk.i]).err # "none"

\* C26: when the operation at position i > 0 of a batch fails in the
\* transaction of the batch, the next step of the call rolls that
\* transaction back (nothing is stored, no result is kept) and leaves the
\* three invocations ops[0:i], ops[i:i+1], ops[i+1:] to run in that order
\* before any other one; an invocation for one operation hands it to
\* Create, Update or Delete, which run it in a transaction of their own;
\* and when the call returns its result list every operation reported
\* without error has been committed
C26_SplitInThree ==
    [][/\ FailsLater =>
             LET h == Head(bulk.todo) IN
             /\ ~tx'["p1"].active
             /\ UNCHANGED <<db, log>>
             /\ bulk'.res = bulk.res
             /\ bulk'.pc = "enter"
             /\ bulk'.todo = <<Range2(h.lo, bulk.i - 1),
                               Range2(bulk.i, bulk.i),
                               Range2(bulk.i + 1, h.hi)>>
                             \o Tail(bulk.todo)
       /\ (Enters /\ Size(Head(bulk.todo)) = 1 /\ bulk'.pc # bulk.pc
             /\ bulk.ctx = "live") =>
             /\ bulk'.pc = "single"
             /\ call'["p1"] = OpCall(bulk.ops[Head(bulk.todo).lo])
             /\ pc'["p1"] \in {"begin", "done"}
             /\ ~tx'["p1"].active
       /\ (bulk'.pc = "returned" /\ bulk'.err = "none") =>
             \A k \in 1..Len(bulk'.res) :
                bulk'.res[k].err = "none" =>
                   \E j \in 1..Len(log') :
                      log'[j].lo <= k /\ k <= log'[j].hi
      ]_vars

\* the third operation of a list has failed after the first two had run in
\* the same transaction: that transaction is gone, nothing is stored, and
\* the three invocations are waiting
C26_Witness ==
    /\ bulk.pc = "enter"
    /\ bulk.todo = <<Range2(1, 2), Range2(3, 3), Range2(4, 3)>>
    /\ bulk.res = <<>>
    /\ log = <<>>
    /\ db = bulk.start
    /\ ~tx["p1"].active

\* the invocations still to run, in call order, are adjacent slices of the
\* list that start at the first operation without a result and end at the
\* last operation of the list
Pieces ==
    IF bulk.todo = <<>> THEN Len(bulk.res) = Len(bulk.ops)
    ELSE /\ Head(bulk.todo).lo = Len(bulk.res) + 1
         /\ \A j \in 1..(Len(bulk.todo) - 1) :
               bulk.todo[j + 1].lo = bulk.todo[j].hi + 1
         /\ bulk.todo[Len(bulk.todo)].hi = Len(bulk.ops)

\* C27: the transaction Bulk has open is that of a batch of at most
\* TransactionMaxSize operations and has run no operation outside that
\* batch; and while the call runs, every operation of the list either has
\* its result or lies in exactly one of the slices still to be run, so the
\* halving of a long list loses no operation and runs none twice
C27_MaxTransaction ==
    /\ bulk.pc = "tx" =>
          /\ tx["p1"].active
          /\ Size(Head(bulk.todo)) <= TransactionMaxSize
          /\ Head(bulk.todo).lo <= bulk.i
          /\ bulk.i <= Head(bulk.todo).hi + 1
          /\ Len(bulk.acc) = bulk.i - Head(bulk.todo).lo
    /\ bulk.pc \in {"enter", "tx", "single", "replay", "replaying"} =>
          Pieces

\* a list of more than twice TransactionMaxSize operations was halved, its
\* second half was halved again, and the transaction of the last quarter
\* has run all its operations
C27_Witness ==
    /\ bulk.pc = "tx"
    /\ Len(bulk.ops) > 2 * TransactionMaxSize
    /\ Len(bulk.todo) = 1
    /\ Size(Head(bulk.todo)) < TransactionMaxSize
    /\ bulk.i = Len(bulk.ops) + 1
    /\ Len(log) = 2

\* every operation of the batch has run on the transaction without error
AtCommit == bulk.pc = "tx" /\ bulk.i > Head(bulk.todo).hi

\* C28: when the Commit of a batch fails, the step leaves the store and the
\* commit log as they were, no transaction open and no result of the batch
\* recorded, and the replay starts at the first operation of the batch; the
\* replay hands one operation after the other, in input order, to Create,
\* Update or Delete while no transaction is open, and records the error
\* that call returned as the result of the operation; and the results the
\* invocation returns are those of the replay, one per operation of the
\* batch
C28_CommitFailReplay ==
    [][/\ (AtCommit /\ bulk'.pc = "replay") =>
             /\ UNCHANGED <<db, log>>
             /\ ~tx'["p1"].active
             /\ bulk'.acc = <<>>
             /\ bulk'.res = bulk.res
             /\ bulk'.i = Head(bulk.todo).lo
             /\ bulk'.todo = bulk.todo
       /\ (bulk.pc = "replay" /\ bulk' # bulk
             /\ bulk.i <= Head(bulk.todo).hi) =>
             /\ bulk'.pc = "replaying"
             /\ bulk'.i = bulk.i
             /\ bulk.i = Head(bulk.todo).lo + Len(bulk.acc)
             /\ call'["p1"] = OpCall(bulk.ops[bulk.i])
             /\ ~tx["p1"].active /\ ~tx'["p1"].active
       /\ (bulk.pc = "replaying" /\ bulk' # bulk) =>
             /\ pc["p1"] = "done"
             /\ bulk'.pc = "replay"
             /\ bulk'.i = bulk.i + 1
             /\ bulk'.acc = Append(bulk.acc,
                    [rt |-> bulk.ops[bulk.i].rt, id |-> bulk.ops[bulk.i].id,
                     kind |-> bulk.ops[bulk.i].kind, err |-> err["p1"]])
             /\ (err["p1"] = "none") = Committed(bulk.i)
       /\ (bulk.pc = "replay" /\ bulk' # bulk
             /\ bulk.i > Head(bulk.todo).hi) =>
             /\ Len(bulk.acc) = Size(Head(bulk.todo))
             /\ bulk'.res = bulk.res \o bulk.acc
             /\ bulk'.todo = Tail(bulk.todo)
             /\ bulk'.pc = "enter"
      ]_vars

\* the Commit of a batch of three operations failed, and the three
\* operations were then stored by three transactions
C28_Witness ==
    /\ BulkDone
    /\ nfail = 1
    /\ Len(bulk.ops) = 3
    /\ Failed = {}
    /\ Len(log) = 3
    /\ \A j \in 1..3 : log[j].lo = j /\ log[j].hi = j
    /\ db # bulk.start

(***************************************************************************)
(* The import runner (ss12000v2import): one goroutine per ImportRunner,    *)
(* woken by its ticker, stopped through its unbuffered quit channel.       *)
(***************************************************************************)
backendVars == <<driver, focus, db, conns, pc, call, tx, stmts, err, got,
                 pre, ncalls, nfail, bulk, log, schema>>

\* the other party of the runner's channel is blocked in ir.quit <- 0
QuitReady(r) == quit[r].pc = "send"

\* a decision that lets a failed full import start again at once
timeForFullImportNoWait(h, c, t) == t - h.fullC > c.ff

\* timeForFullImport, with the history as read and the clock at t
timeForFullImport(h, c, t) ==
    IF h.fullC < h.fullS /\ t - h.fullS < c.fr
    THEN FALSE
    ELSE t - h.fullC > c.ff

\* timeForIncrementalImport, with the history as read and the clock at t
timeForIncrementalImport(h, c, t) ==
    IF timeForFullImport(h, c, t)
    THEN FALSE
    ELSE IF h.incC < h.incS /\ t - h.incS < c.nr
         THEN FALSE
         ELSE t - h.incC > c.nf

\* what can go wrong with the history during the decision of a tick: one of
\* the Get calls fails, or the Set call of the start time fails
HistErrs == {"none", "read", "write"}

\* the goroutine is inside importTick
InTick(r) == runners[r].pc \in {"decide", "import", "panicked", "after"}

\* the goroutine can still run a tick
Live(r) == runners[r].pc \in {"loop", "select"} \/ InTick(r)

\* time passes
Tock ==
    /\ now < MaxTime
    /\ now' = now + 1
    /\ UNCHANGED <<backendVars, conf, hist, runners, quit, mgr, clients,
                   nreq, imp>>

\* the first select of the loop: a Quit caller that is waiting to send is
\* served, otherwise the default case falls through to the second select
RunPoll(r) ==
    /\ runners[r].pc = "loop"
    /\ IF QuitReady(r)
       THEN /\ quit' = [quit EXCEPT ![r].pc = "recv"]
            /\ runners' = [runners EXCEPT ![r].pc = "ack"]
       ELSE /\ runners' = [runners EXCEPT ![r].pc = "select"]
            /\ UNCHANGED quit
    /\ UNCHANGED <<backendVars, now, conf, hist, mgr, clients, nreq, imp>>

\* the second select takes case <-ir.quit
RunQuit(r) ==
    /\ runners[r].pc = "select"
    /\ QuitReady(r)
    /\ quit' = [quit EXCEPT ![r].pc = "recv"]
    /\ runners' = [runners EXCEPT ![r].pc = "ack"]
    /\ UNCHANGED <<backendVars, now, conf, hist, mgr, clients, nreq, imp>>

\* the second select takes case <-retry.C: a context is made for the tick
\* and its cancel function stored
RunTick(r) ==
    /\ runners[r].pc = "select"
    /\ runners[r].ticks < runners[r].ticker
    /\ runners' = [runners EXCEPT ![r].pc = "decide",
                                  ![r].ticks = @ + 1,
                                  ![r].canceller = runners[r].ticks + 1,
                                  ![r].ctx = "live",
                                  ![r].kind = "none",
                                  ![r].herr = "none"]
    /\ UNCHANGED <<backendVars, now, conf, hist, quit, mgr, clients, nreq,
                   imp>>

\* importTick up to the call of FullImport or IncrementalImport
TickDecide(r) ==
    LET t == runners[r].tenant
        h == hist[t]
        full == timeForFullImport(h, conf, now)
        incr == timeForIncrementalImport(h, conf, now)
    IN
    /\ runners[r].pc = "decide"
    /\ \E e \in HistErrs :
         IF e = "read" \/ (e = "write" /\ (full \/ incr))
         THEN /\ runners' = [runners EXCEPT ![r].pc = "after", ![r].herr = e]
              /\ UNCHANGED hist
         ELSE IF full
         THEN /\ hist' = [hist EXCEPT ![t].fullS = now]
              /\ runners' = [runners EXCEPT ![r].pc = "import",
                                            ![r].kind = "full"]
         ELSE IF incr
         THEN /\ hist' = [hist EXCEPT ![t].incS = now]
              /\ runners' = [runners EXCEPT ![r].pc = "import",
                                            ![r].kind = "incremental"]
         ELSE /\ runners' = [runners EXCEPT ![r].pc = "after"]
              /\ UNCHANGED hist
    /\ UNCHANGED <<backendVars, now, conf, quit, mgr, clients, nreq, imp>>

\* an importTick that writes the time of completion whatever the import
\* returned
ImportReturnsWrites(r) ==
    LET t == runners[r].tenant IN
    /\ runners[r].pc = "import"
    /\ \E res \in {"nil", "error"} :
         /\ runners' = [runners EXCEPT ![r].pc = "after", ![r].herr = res]
         /\ IF runners[r].kind = "full"
            THEN hist' = [hist EXCEPT ![t].fullC = now]
            ELSE hist' = [hist EXCEPT ![t].incC = now]
    /\ UNCHANGED <<backendVars, now, conf, quit, mgr, clients, nreq, imp>>

\* FullImport or IncrementalImport returns; on a nil error the time of
\* completion is written, unless that Set call fails
ImportReturns(r) ==
    LET t == runners[r].tenant IN
    /\ runners[r].pc = "import"
    /\ \E res \in {"nil", "error"} : \E written \in BOOLEAN :
         /\ runners' = [runners EXCEPT ![r].pc = "after",
                         ![r].herr = IF res = "nil" /\ ~written
                                     THEN "write" ELSE res]
         /\ IF res = "nil" /\ written
            THEN IF runners[r].kind = "full"
                 THEN hist' = [hist EXCEPT ![t].fullC = now]
                 ELSE hist' = [hist EXCEPT ![t].incC = now]
            ELSE UNCHANGED hist
    /\ UNCHANGED <<backendVars, now, conf, quit, mgr, clients, nreq, imp>>

\* the import panics: the deferred function of importTick recovers and
\* makes importTick return an error
ImportPanics(r) ==
    /\ runners[r].pc = "import"
    /\ runners' = [runners EXCEPT ![r].pc = "panicked", ![r].herr = "panic"]
    /\ UNCHANGED <<backendVars, now, conf, hist, quit, mgr, clients, nreq,
                   imp>>

\* importTick returned nil: setContextCanceller(nil), runningCancel()
TickEnds(r) ==
    /\ runners[r].pc = "after"
    /\ runners' = [runners EXCEPT ![r].pc = "loop", ![r].canceller = 0,
                                  ![r].ctx = "none", ![r].kind = "none",
                                  ![r].herr = "none"]
    /\ UNCHANGED <<backendVars, now, conf, hist, quit, mgr, clients, nreq,
                   imp>>

\* importTick returned the error of a panic: setContextCanceller(nil),
\* runningCancel(), setStopped()
TickPanicked(r) ==
    /\ runners[r].pc = "panicked"
    /\ runners' = [runners EXCEPT ![r].pc = "stopping", ![r].canceller = 0,
                                  ![r].ctx = "none", ![r].stopped = TRUE]
    /\ UNCHANGED <<backendVars, now, conf, hist, quit, mgr, clients, nreq,
                   imp>>

\* the select after setStopped: a Quit caller that is waiting to send is
\* served, otherwise the goroutine returns
RunStopped(r) ==
    /\ runners[r].pc = "stopping"
    /\ IF QuitReady(r)
       THEN /\ quit' = [quit EXCEPT ![r].pc = "recv"]
            /\ runners' = [runners EXCEPT ![r].pc = "ack"]
       ELSE /\ runners' = [runners EXCEPT ![r].pc = "exited"]
            /\ UNCHANGED quit
    /\ UNCHANGED <<backendVars, now, conf, hist, mgr, clients, nreq, imp>>

\* ir.quit <- 0 of the goroutine meets <-ir.quit of Quit; the goroutine
\* returns
RunAck(r) ==
    /\ runners[r].pc = "ack"
    /\ quit[r].pc = "recv"
    /\ quit' = [quit EXCEPT ![r].pc = "returned"]
    /\ runners' = [runners EXCEPT ![r].pc = "exited"]
    /\ UNCHANGED <<backendVars, now, conf, hist, mgr, clients, nreq, imp>>

(***************************************************************************)
(* ImportRunner.Quit, step by step.                                        *)
(***************************************************************************)
\* a Quit that returns without waiting for the goroutine
QuitCheckReturns(r) ==
    /\ quit[r].pc = "check"
    /\ quit' = [quit EXCEPT ![r].pc = "returned"]
    /\ UNCHANGED <<backendVars, now, conf, hist, runners, mgr, clients,
                   nreq, imp>>

\* if ir.isStopped() { return }
QuitCheck(r) ==
    /\ quit[r].pc = "check"
    /\ quit' = [quit EXCEPT ![r].pc =
                  IF runners[r].stopped THEN "returned" ELSE "get"]
    /\ UNCHANGED <<backendVars, now, conf, hist, runners, mgr, clients,
                   nreq, imp>>

\* canceller := ir.getContextCanceller()
QuitGet(r) ==
    /\ quit[r].pc = "get"
    /\ quit' = [quit EXCEPT ![r].pc = "cancel",
                            ![r].got = runners[r].canceller]
    /\ UNCHANGED <<backendVars, now, conf, hist, runners, mgr, clients,
                   nreq, imp>>

\* if canceller != nil { canceller() }: the context of the tick the function
\* was made for is cancelled; then Quit blocks in ir.quit <- 0
QuitCancel(r) ==
    /\ quit[r].pc = "cancel"
    /\ quit' = [quit EXCEPT ![r].pc = "send"]
    /\ IF /\ quit[r].got # 0
          /\ quit[r].got = runners[r].ticks
          /\ runners[r].ctx = "live"
       THEN runners' = [runners EXCEPT ![r].ctx = "cancelled"]
       ELSE UNCHANGED runners
    /\ UNCHANGED <<backendVars, now, conf, hist, mgr, clients, nreq, imp>>

\* Quit is called on a runner
QuitCall(r) ==
    /\ quit[r].pc = "none"
    /\ runners[r].pc # "unborn"
    /\ quit' = [quit EXCEPT ![r].pc = "check"]
    /\ UNCHANGED <<backendVars, now, conf, hist, runners, mgr, clients,
                   nreq, imp>>

(***************************************************************************)
(* SpecRunner: one runner, the clock, and one Quit call.                   *)
(***************************************************************************)
Confs == {ConfRec(ff, fr, nf, nr) : ff \in {1, 2}, fr \in {1, 2},
                                    nf \in {0, 1}, nr \in {1, 2}}

\* NewImportRunner(conf) has run for the first tenant
InitRunner ==
    /\ focus = "Users"
    /\ db = EmptyStore
    /\ InitBackend
    /\ Migrated
    /\ driver = "mysql"
    /\ now = 1
    /\ conf \in Confs
    /\ hist = [t \in Tenants |-> ZeroHist]
    /\ runners = [r \in RunnerIds |->
                    IF r = 1 THEN [NoRunner EXCEPT !.pc = "loop",
                                                   !.ticker = MaxTicks]
                    ELSE NoRunner]
    /\ quit = [r \in RunnerIds |-> NoQuit]
    /\ mgr = [NoMgr EXCEPT !.runners["t1"] = 1]
    /\ clients = [c \in Clients |-> NoClient]
    /\ nreq = 0
    /\ imp = NoImp

NextRunner ==
    \/ Tock
    \/ RunPoll(1)
    \/ RunQuit(1)
    \/ RunTick(1)
    \/ TickDecide(1)
    \/ ImportReturns(1)
    \/ ImportPanics(1)
    \/ TickEnds(1)
    \/ TickPanicked(1)
    \/ RunStopped(1)
    \/ RunAck(1)
    \/ QuitCall(1)
    \/ QuitCheck(1)
    \/ QuitGet(1)
    \/ QuitCancel(1)

SpecRunner == InitRunner /\ [][NextRunner]_vars

(***************************************************************************)
(* Properties of the import runner.                                        *)
(***************************************************************************)
\* runner r takes the decision of its tick in this step
Decides(r) == runners[r].pc = "decide" /\ runners'[r].pc # "decide"

\* the conditions as the specification words them, at time t
FullDue(h, c, t) ==
    /\ t - h.fullC > c.ff
    /\ (h.fullC >= h.fullS \/ t - h.fullS >= c.fr)

IncrementalDue(h, c, t) ==
    /\ t - h.incC > c.nf
    /\ (h.incC >= h.incS \/ t - h.incS >= c.nr)

StartsImport(r, kind) ==
    /\ runners'[r].pc = "import"
    /\ runners'[r].kind = kind

\* C12 as stated: at every tick the runner starts a full import exactly when
\* the full import is due, otherwise an incremental import exactly when that
\* one is due, otherwise nothing
C12_AsStated ==
    [][\A r \in RunnerIds : Decides(r) =>
          LET h == hist[runners[r].tenant] IN
          /\ StartsImport(r, "full") <=> FullDue(h, conf, now)
          /\ StartsImport(r, "incremental") <=>
                (~FullDue(h, conf, now) /\ IncrementalDue(h, conf, now))
      ]_vars

\* C12 amended: an import starts only when it is due, at most one kind
\* starts, the import that is due starts whenever the history calls of the
\* tick succeed, and a tick in which a history call fails starts nothing
C12_Amended ==
    [][\A r \in RunnerIds : Decides(r) =>
          LET h == hist[runners[r].tenant]
              ok == runners'[r].herr = "none"
          IN
          /\ StartsImport(r, "full") <=> (ok /\ FullDue(h, conf, now))
          /\ StartsImport(r, "incremental") <=>
                (ok /\ ~FullDue(h, conf, now) /\ IncrementalDue(h, conf, now))
          /\ ~(StartsImport(r, "full") \/ StartsImport(r, "incremental")) =>
                (runners'[r].pc = "after" /\ hist' = hist)
      ]_vars

\* an incremental import was started by a tick at which the failed full
\* import was still waiting for its retry
C12_Witness ==
    /\ runners[1].pc = "import"
    /\ runners[1].kind = "incremental"
    /\ hist["t1"].fullS > hist["t1"].fullC
    /\ now - hist["t1"].fullC > conf.ff

\* the import of runner r returns an error in this step
ImportFails(r) ==
    /\ runners[r].pc = "import"
    /\ runners'[r].pc = "after"
    /\ runners'[r].herr = "error"

\* C13: when an import returns an error, no time of completion is written
\* and the time of its start is later than the time of completion of its
\* kind; a time of completion changes only when an import of that kind
\* returns nil; and while the start is later than the completion no import
\* of that kind starts before the retry wait has passed since the start
C13_RetryWait ==
    [][\A r \in RunnerIds :
          LET t == runners[r].tenant
              h == hist[t]
          IN
          /\ ImportFails(r) =>
                /\ hist' = hist
                /\ runners[r].kind = "full" => h.fullS > h.fullC
                /\ runners[r].kind = "incremental" => h.incS > h.incC
          /\ (StartsImport(r, "full") /\ Decides(r) /\ h.fullS > h.fullC) =>
                now - h.fullS >= conf.fr
          /\ (StartsImport(r, "incremental") /\ Decides(r)
                /\ h.incS > h.incC) => now - h.incS >= conf.nr
          /\ hist'[t].fullC # h.fullC =>
                \E q \in RunnerIds :
                    /\ runners[q].pc = "import" /\ runners[q].kind = "full"
                    /\ runners'[q].herr = "nil"
          /\ hist'[t].incC # h.incC =>
                \E q \in RunnerIds :
                    /\ runners[q].pc = "import"
                    /\ runners[q].kind = "incremental"
                    /\ runners'[q].herr = "nil"
      ]_vars

\* an incremental import whose tick Quit cancelled has returned an error,
\* after a full import had failed as well
C13_Witness ==
    /\ runners[1].pc = "after"
    /\ runners[1].herr = "error"
    /\ runners[1].kind = "incremental"
    /\ runners[1].ctx = "cancelled"
    /\ hist["t1"].incS > hist["t1"].incC
    /\ hist["t1"].fullS > hist["t1"].fullC
    /\ hist["t1"].incS - hist["t1"].fullS < conf.fr

\* C14: once Quit has returned, the runner's goroutine is past its last
\* tick: it is in no tick and at no select that could start one, and from
\* then on it starts no tick and writes no history
C14_QuitStops ==
    [][\A r \in RunnerIds : quit[r].pc = "returned" =>
          /\ ~Live(r)
          /\ ~Live(r)'
          /\ runners'[r].ticks = runners[r].ticks
          /\ hist'[runners[r].tenant] = hist[runners[r].tenant]
      ]_vars

\* Quit cancelled a running tick, was acknowledged and has returned while
\* the ticker had ticks left
C14_Witness ==
    /\ quit[1].pc = "returned"
    /\ quit[1].got # 0
    /\ ~runners[1].stopped
    /\ runners[1].pc = "exited"
    /\ runners[1].ticks < runners[1].ticker

\* C15: a tick that executes while Quit is blocked in its send on the quit
\* channel has had its context cancelled
C15_TickCancelled ==
    \A r \in RunnerIds :
        (quit[r].pc = "send" /\ runners[r].pc \in {"decide", "import"}) =>
            runners[r].ctx = "cancelled"

\* C16: no Quit call is blocked on the quit channel of a runner whose
\* goroutine has returned
C16_QuitReturns ==
    \A r \in RunnerIds :
        ~(quit[r].pc \in {"send", "recv"} /\ runners[r].pc = "exited")

\* the ticker has a tick for the runner to receive
TickReady(r) == runners[r].ticks < runners[r].ticker

\* C29 as stated: when a Quit caller is waiting to send on the quit channel
\* of a runner that is at one of the selects of its loop, and a tick is
\* ready as well, the runner does not start a tick
C29_QuitFirst ==
    [][\A r \in RunnerIds :
          (QuitReady(r) /\ TickReady(r)
             /\ runners[r].pc \in {"loop", "select"})
             => runners'[r].pc # "decide"]_vars

(***************************************************************************)
(* The import manager (ss12000v2import): one goroutine that owns the map   *)
(* of runners and serves the unbuffered channels add and delete.           *)
(***************************************************************************)
\* the runner NewImportRunner creates next
FreshRunner == CHOOSE r \in RunnerIds :
                  /\ runners[r].pc = "unborn"
                  /\ \A q \in RunnerIds : runners[q].pc = "unborn" => r <= q

\* runner := NewImportRunner(conf); runners[conf.Tenant] = runner
NewImportRunner(t) ==
    /\ runners' = [runners EXCEPT ![FreshRunner] =
                     [NoRunner EXCEPT !.pc = "loop", !.tenant = t,
                                      !.ticker = MaxTicks - 1]]
    /\ mgr' = [mgr EXCEPT !.pc = "idle", !.tenant = t,
                          !.runners[t] = FreshRunner]

\* a caller enters AddRunner(conf) and blocks in im.add <- conf
ClientAdd(c, t) ==
    /\ clients[c].pc \in {"idle", "returned"}
    /\ nreq < MaxReqs
    /\ nreq' = nreq + 1
    /\ clients' = [clients EXCEPT ![c] =
                     [NoClient EXCEPT !.pc = "add", !.cmd = "add",
                                      !.tenant = t]]
    /\ UNCHANGED <<backendVars, now, conf, hist, runners, quit, mgr, imp>>

\* a caller enters DeleteRunner(tenant) and blocks in im.delete <- command
ClientDelete(c, t) ==
    /\ clients[c].pc \in {"idle", "returned"}
    /\ nreq < MaxReqs
    /\ nreq' = nreq + 1
    /\ clients' = [clients EXCEPT ![c] =
                     [NoClient EXCEPT !.pc = "delete", !.cmd = "delete",
                                      !.tenant = t]]
    /\ UNCHANGED <<backendVars, now, conf, hist, runners, quit, mgr, imp>>

\* a manager that replaces the runner of a tenant without stopping it
MgrAddNoQuit(c) ==
    /\ mgr.pc = "idle"
    /\ clients[c].pc = "add"
    /\ \E r \in RunnerIds : runners[r].pc = "unborn"
    /\ clients' = [clients EXCEPT ![c].pc = "returned"]
    /\ NewImportRunner(clients[c].tenant)
    /\ UNCHANGED <<backendVars, now, conf, hist, quit, nreq, imp>>

\* case conf := <-im.add: AddRunner returns; the runner the map holds for
\* the tenant is told to quit, or there is none and the new one is made
MgrAdd(c) ==
    LET t == clients[c].tenant
        old == mgr.runners[t]
    IN
    /\ mgr.pc = "idle"
    /\ clients[c].pc = "add"
    /\ \E r \in RunnerIds : runners[r].pc = "unborn"
    /\ clients' = [clients EXCEPT ![c].pc = "returned"]
    /\ IF old # 0
       THEN /\ mgr' = [mgr EXCEPT !.pc = "addquit", !.tenant = t,
                                  !.client = c, !.old = old]
            /\ quit' = [quit EXCEPT ![old].pc = "check"]
            /\ UNCHANGED runners
       ELSE /\ NewImportRunner(t)
            /\ UNCHANGED quit
    /\ UNCHANGED <<backendVars, now, conf, hist, nreq, imp>>

\* oldRunner.Quit() has returned: the new runner is made and stored
MgrAddNew ==
    /\ mgr.pc = "addquit"
    /\ quit[mgr.old].pc = "returned"
    /\ NewImportRunner(mgr.tenant)
    /\ UNCHANGED <<backendVars, now, conf, hist, quit, clients, nreq, imp>>

\* a manager that erases the runner and replies without stopping it
MgrDeleteNoQuit(c) ==
    LET t == clients[c].tenant IN
    /\ mgr.pc = "idle"
    /\ clients[c].pc = "delete"
    /\ clients' = [clients EXCEPT ![c].pc = "reply"]
    /\ mgr' = [mgr EXCEPT !.pc = "reply", !.tenant = t, !.client = c,
                          !.old = mgr.runners[t], !.runners[t] = 0]
    /\ UNCHANGED <<backendVars, now, conf, hist, runners, quit, nreq, imp>>

\* case delCmd := <-im.delete: the caller goes on to wait for the reply;
\* the runner the map holds for the tenant is told to quit
MgrDelete(c) ==
    LET t == clients[c].tenant
        old == mgr.runners[t]
    IN
    /\ mgr.pc = "idle"
    /\ clients[c].pc = "delete"
    /\ clients' = [clients EXCEPT ![c].pc = "reply"]
    /\ IF old # 0
       THEN /\ mgr' = [mgr EXCEPT !.pc = "delquit", !.tenant = t,
                                  !.client = c, !.old = old]
            /\ quit' = [quit EXCEPT ![old].pc = "check"]
       ELSE /\ mgr' = [mgr EXCEPT !.pc = "reply", !.tenant = t,
                                  !.client = c, !.old = 0]
            /\ UNCHANGED quit
    /\ UNCHANGED <<backendVars, now, conf, hist, runners, nreq, imp>>

\* oldRunner.Quit() has returned: delete(runners, delCmd.tenant)
MgrErase ==
    /\ mgr.pc = "delquit"
    /\ quit[mgr.old].pc = "returned"
    /\ mgr' = [mgr EXCEPT !.pc = "reply", !.runners[mgr.tenant] = 0]
    /\ UNCHANGED <<backendVars, now, conf, hist, runners, quit, clients,
                   nreq, imp>>

\* delCmd.reply <- 0 meets <-command.reply: DeleteRunner returns
MgrReply ==
    /\ mgr.pc = "reply"
    /\ clients[mgr.client].pc = "reply"
    /\ clients' = [clients EXCEPT ![mgr.client].pc = "returned",
                                  ![mgr.client].erased = mgr.old]
    /\ mgr' = [mgr EXCEPT !.pc = "idle"]
    /\ UNCHANGED <<backendVars, now, conf, hist, runners, quit, nreq, imp>>

(***************************************************************************)
(* SpecManager: callers of AddRunner and DeleteRunner, the manager, and    *)
(* the runners it creates.                                                 *)
(***************************************************************************)
\* the tenants runners are added for; DeleteRunner is called for every
\* tenant, so also for one that never had a runner
AddTenants == {"t1"}

\* NewImportManager() has run
InitManager ==
    /\ focus = "Users"
    /\ db = EmptyStore
    /\ InitBackend
    /\ Migrated
    /\ driver = "mysql"
    /\ ImportIdle

NextManager ==
    \/ \E c \in Clients : \E t \in AddTenants : ClientAdd(c, t)
    \/ \E c \in Clients : \E t \in Tenants : ClientDelete(c, t)
    \/ \E c \in Clients : MgrAdd(c)
    \/ MgrAddNew
    \/ \E c \in Clients : MgrDelete(c)
    \/ MgrErase
    \/ MgrReply
    \/ \E r \in RunnerIds : RunPoll(r)
    \/ \E r \in RunnerIds : RunQuit(r)
    \/ \E r \in RunnerIds : RunTick(r)
    \/ \E r \in RunnerIds : TickDecide(r)
    \/ \E r \in RunnerIds : ImportReturns(r)
    \/ \E r \in RunnerIds : ImportPanics(r)
    \/ \E r \in RunnerIds : TickEnds(r)
    \/ \E r \in RunnerIds : TickPanicked(r)
    \/ \E r \in RunnerIds : RunStopped(r)
    \/ \E r \in RunnerIds : RunAck(r)
    \/ \E r \in RunnerIds : QuitCheck(r)
    \/ \E r \in RunnerIds : QuitGet(r)
    \/ \E r \in RunnerIds : QuitCancel(r)

SpecManager == InitManager /\ [][NextManager]_vars

(***************************************************************************)
(* Properties of the import manager.                                       *)
(***************************************************************************)
\* the runners made for tenant t whose goroutine can still run a tick
LiveRunners(t) == {r \in RunnerIds : runners[r].tenant = t /\ Live(r)}

\* runner r is created in this step
Created(r) == runners[r].pc = "unborn" /\ runners'[r].pc # "unborn"

\* C17: no tenant has two runners that can run a tick, and a runner is
\* created for a tenant only when the Quit call on every earlier runner of
\* that tenant has returned
C17_OneRunner ==
    [][/\ \A t \in Tenants : Cardinality(LiveRunners(t)) <= 1
       /\ \A t \in Tenants : Cardinality(LiveRunners(t))' <= 1
       /\ \A r \in RunnerIds : Created(r) =>
             \A q \in RunnerIds :
                (runners[q].pc # "unborn"
                    /\ runners[q].tenant = runners'[r].tenant) =>
                   (quit[q].pc = "returned" /\ ~Live(q))
      ]_vars

\* AddRunner for a tenant whose runner was in an import: the old runner
\* acknowledged Quit and returned, the new one is in its own import
C17_Witness ==
    /\ runners[1].tenant = "t1"
    /\ runners[2].tenant = "t1"
    /\ runners[1].pc = "exited"
    /\ ~runners[1].stopped
    /\ quit[1].got # 0
    /\ runners[2].pc = "import"

\* DeleteRunner returns to client c in this step
DeleteReturns(c) ==
    /\ clients[c].cmd = "delete"
    /\ clients[c].pc = "reply"
    /\ clients'[c].pc = "returned"

\* C18: when DeleteRunner returns, the map holds no runner for the tenant
\* and the Quit call on the runner it held has returned; a runner erased by
\* a DeleteRunner that has returned runs no tick and writes no history; and
\* for a tenant without a runner the manager changes nothing but replies
C18_DeleteWaits ==
    [][/\ \A c \in Clients : DeleteReturns(c) =>
             /\ mgr.runners[clients[c].tenant] = 0
             /\ mgr'.runners = mgr.runners
             /\ clients'[c].erased # 0 =>
                   /\ quit[clients'[c].erased].pc = "returned"
                   /\ runners[clients'[c].erased].tenant = clients[c].tenant
       /\ \A c \in Clients :
             (clients[c].pc = "returned" /\ clients[c].erased # 0) =>
                LET e == clients[c].erased IN
                /\ ~Live(e)
                /\ runners'[e].pc \in {"stopping", "exited"}
                /\ runners'[e].ticks = runners[e].ticks
       /\ \A c \in Clients :
             (clients[c].pc = "delete" /\ clients'[c].pc = "reply"
                 /\ mgr.runners[clients[c].tenant] = 0) =>
                /\ mgr'.pc = "reply"
                /\ mgr'.runners = mgr.runners
                /\ UNCHANGED <<runners, quit, hist>>
      ]_vars

\* DeleteRunner has returned for a tenant whose runner was in an import
\* when Quit was called
C18_Witness ==
    \E c \in Clients :
        /\ clients[c].pc = "returned"
        /\ clients[c].erased # 0
        /\ quit[clients[c].erased].got # 0
        /\ runners[clients[c].erased].pc = "exited"
        /\ mgr.runners[clients[c].tenant] = 0

(***************************************************************************)
(* ImportManager.Quit, and SpecQuitting: the callers of AddRunner,         *)
(* DeleteRunner and Quit, the manager and its runners, with every          *)
(* goroutine that can take a step taking one sooner or later.              *)
(***************************************************************************)
\* a caller enters Quit() and blocks in im.quit <- 0
ClientQuit(c) ==
    /\ clients[c].pc \in {"idle", "returned"}
    /\ nreq < MaxReqs
    /\ nreq' = nreq + 1
    /\ clients' = [clients EXCEPT ![c] =
                     [NoClient EXCEPT !.pc = "quit", !.cmd = "quit"]]
    /\ UNCHANGED <<backendVars, now, conf, hist, runners, quit, mgr, imp>>

\* case <-im.quit: the caller goes on to wait for the answer; the manager
\* starts the loop over its map
MgrQuit(c) ==
    /\ mgr.pc = "idle"
    /\ clients[c].pc = "quit"
    /\ clients' = [clients EXCEPT ![c].pc = "quitack"]
    /\ mgr' = [mgr EXCEPT !.pc = "quitloop", !.client = c,
                          !.left = {t \in Tenants : mgr.runners[t] # 0}]
    /\ UNCHANGED <<backendVars, now, conf, hist, runners, quit, nreq, imp>>

\* for _, runner := range runners { runner.Quit() }: the next runner, in
\* the order the map gives
MgrQuitNext ==
    /\ mgr.pc = "quitloop"
    /\ \E t \in mgr.left :
          /\ mgr' = [mgr EXCEPT !.pc = "quitwait", !.tenant = t,
                                !.old = mgr.runners[t],
                                !.left = @ \ {t}]
          /\ quit' = [quit EXCEPT ![mgr.runners[t]].pc = "check"]
    /\ UNCHANGED <<backendVars, now, conf, hist, runners, clients, nreq,
                   imp>>

\* runner.Quit() has returned
MgrQuitWaited ==
    /\ mgr.pc = "quitwait"
    /\ quit[mgr.old].pc = "returned"
    /\ mgr' = [mgr EXCEPT !.pc = "quitloop"]
    /\ UNCHANGED <<backendVars, now, conf, hist, runners, quit, clients,
                   nreq, imp>>

\* im.quit <- 0 meets <-im.quit of Quit: Quit returns and so does the
\* goroutine of the manager
MgrQuitAck ==
    /\ mgr.pc = "quitloop"
    /\ mgr.left = {}
    /\ clients[mgr.client].pc = "quitack"
    /\ clients' = [clients EXCEPT ![mgr.client].pc = "returned"]
    /\ mgr' = [mgr EXCEPT !.pc = "exited"]
    /\ UNCHANGED <<backendVars, now, conf, hist, runners, quit, nreq, imp>>

\* a runner is left for one more AddRunner call
RunnersLeft ==
    Cardinality({r \in RunnerIds : runners[r].pc # "unborn"})
      + Cardinality({c \in Clients : clients[c].pc = "add"})
      + (IF mgr.pc = "addquit" THEN 1 ELSE 0) < MaxRunners

\* the steps of the callers: the calls arrive when they arrive
CallsQuitting ==
    \/ \E c \in Clients : \E t \in AddTenants : RunnersLeft /\ ClientAdd(c, t)
    \/ \E c \in Clients : \E t \in AddTenants : ClientDelete(c, t)
    \/ \E c \in Clients : ClientQuit(c)

\* the steps of the goroutines of the manager and of the runners, and of
\* the imports they run
StepsQuitting ==
    \/ \E c \in Clients : MgrAdd(c)
    \/ MgrAddNew
    \/ \E c \in Clients : MgrDelete(c)
    \/ MgrErase
    \/ MgrReply
    \/ \E c \in Clients : MgrQuit(c)
    \/ MgrQuitNext
    \/ MgrQuitWaited
    \/ MgrQuitAck
    \/ \E r \in RunnerIds : RunPoll(r)
    \/ \E r \in RunnerIds : RunQuit(r)
    \/ \E r \in RunnerIds : RunTick(r)
    \/ \E r \in RunnerIds : TickDecide(r)
    \/ \E r \in RunnerIds : ImportReturns(r)
    \/ \E r \in RunnerIds : TickEnds(r)
    \/ \E r \in RunnerIds : TickPanicked(r)
    \/ \E r \in RunnerIds : RunStopped(r)
    \/ \E r \in RunnerIds : RunAck(r)
    \/ \E r \in RunnerIds : QuitCheck(r)
    \/ \E r \in RunnerIds : QuitGet(r)
    \/ \E r \in RunnerIds : QuitCancel(r)

NextQuitting ==
    \/ CallsQuitting
    \/ StepsQuitting
    \/ \E r \in RunnerIds : ImportPanics(r)

\* a goroutine that can run does run: the behaviour does not stop while a
\* step of the manager, of a runner or of an import is possible
SpecQuitting ==
    InitManager /\ [][NextQuitting]_vars /\ WF_vars(StepsQuitting)

\* the caller is inside AddRunner, DeleteRunner or Quit
InCall(c) == clients[c].pc \notin {"idle", "returned"}

\* C30 as stated: every call of AddRunner, DeleteRunner or Quit of the
\* manager returns
C30_CallsReturn ==
    \A c \in Clients : InCall(c) ~> clients[c].pc = "returned"

(***************************************************************************)
(* The import adapter (V2toV1ImportBackendAdapter): ReplaceT and Delete    *)
(* turn a list of typed objects into one Bulk call.                        *)
(***************************************************************************)
\* a typed SS12000 v1 object; val = EmptyName stands for an object whose
\* required name is the empty string
Obj(id, val, kids) == [id |-> id, val |-> val, kids |-> kids]

EmptyName == "empty"

\* json.Marshal(obj): the attributes tagged omitempty (familyName, givenName,
\* the value of an e-mail address) are left out when empty, and then the
\* body lacks an attribute the parser requires
Marshal(o) ==
    Raw(o.id, IF o.val = EmptyName THEN Missing ELSE o.val, o.kids, NoGroup,
        FALSE)

\* the keys of backend.GetResources(tenant, resourceType)
GetResources(store, t, rt) ==
    {id \in Ids : store.main[<<t, rt, id>>] # NoRow}

ObjIds(L) == {L[i].id : i \in DOMAIN L}

\* the orders in which a range over a Go map or over keysFromMap can visit
\* the ids of S
MapOrders(S) ==
    {s \in [1..Cardinality(S) -> S] :
        \A i, j \in 1..Cardinality(S) : s[i] = s[j] => i = j}

\* the loop over objs of ReplaceT: an update for an id that exists, a create
\* for one that does not
UpsertOps(existing, rt, L) ==
    [i \in DOMAIN L |->
        IF L[i].id \in existing
        THEN BulkOperation("Update", rt, L[i].id, Marshal(L[i]))
        ELSE BulkOperation("Create", rt, NoId, Marshal(L[i]))]

DeleteOps(rt, ids) ==
    [i \in DOMAIN ids |-> BulkOperation("Delete", rt, ids[i], NoRaw)]

\* the Bulk call ReplaceT and Delete end with
AdapterBulk(t, ops) ==
    bulk' = [NoBulk EXCEPT !.pc = "enter", !.tenant = t, !.ops = ops,
                           !.todo = <<Range2(1, Len(ops))>>, !.start = db]

AdapterVarsUnchanged ==
    UNCHANGED <<driver, focus, db, conns, pc, call, tx, stmts, err, got, pre,
                ncalls, nfail, log, schema, now, conf, hist, runners, quit, mgr,
                clients, nreq>>

\* ReplaceT(ctx, adapter, tenant, resourceType, objs, deleteOthers) up to
\* its call of Bulk
ReplaceT(t, rt, L, deleteOthers) ==
    LET existing == GetResources(db, t, rt)
        others == IF deleteOthers THEN existing \ ObjIds(L) ELSE {}
    IN
    /\ imp.pc = "idle"
    /\ bulk.pc = "idle"
    /\ pc["p1"] = "idle"
    /\ \E ds \in MapOrders(others) :
          AdapterBulk(t, UpsertOps(existing, rt, L) \o DeleteOps(rt, ds))
    /\ imp' = [NoImp EXCEPT !.pc = "replace", !.op = "Replace",
                            !.tenant = t, !.list = L, !.del = deleteOthers]
    /\ AdapterVarsUnchanged

\* backend.GetResources fails: ReplaceT returns the error
ReplaceReadFails(t, L, deleteOthers) ==
    /\ imp.pc = "idle"
    /\ bulk.pc = "idle"
    /\ pc["p1"] = "idle"
    /\ imp' = [NoImp EXCEPT !.pc = "returned", !.op = "Replace",
                            !.tenant = t, !.list = L, !.del = deleteOthers,
                            !.err = "error"]
    /\ UNCHANGED bulk
    /\ AdapterVarsUnchanged

\* Bulk has returned: its result list is dropped, its error is returned
ReplaceReturns ==
    /\ imp.pc = "replace"
    /\ imp.op = "Replace"
    /\ bulk.pc = "returned"
    /\ imp' = [imp EXCEPT !.pc = "returned",
                          !.err = IF bulk.err # "none" THEN "error"
                                  ELSE "none"]
    /\ UNCHANGED bulk
    /\ AdapterVarsUnchanged

(***************************************************************************)
(* SpecReplace: one call of Replace, on a store that holds entity a.       *)
(***************************************************************************)
\* the objects of the lists: a new version of a, a new entity b, and a b
\* with an empty name
ReplaceObjs(rt) ==
    LET X == [c \in ChildTablesOf(rt) |-> <<"x">>]
        YX == [c \in ChildTablesOf(rt) |->
                 IF c = objectMutator[rt][1] THEN <<"y", "x">> ELSE <<>>]
    IN
    {Obj("a", "v2", YX), Obj("b", "v1", X), Obj("b", EmptyName, NoKids(rt))}

\* the lists Replace is called with: no id twice
ReplaceLists(rt) ==
    {<<>>}
    \cup {<<o>> : o \in ReplaceObjs(rt)}
    \cup {<<o1, o2>> : o1 \in {o \in ReplaceObjs(rt) : o.id = "a"},
                       o2 \in {o \in ReplaceObjs(rt) : o.id = "b"}}
    \cup {<<o2, o1>> : o1 \in {o \in ReplaceObjs(rt) : o.id = "a"},
                       o2 \in {o \in ReplaceObjs(rt) : o.id = "b"}}

BulkSteps ==
    \/ CtxDone
    \/ BulkCancelled
    \/ BulkEmpty
    \/ BulkSingle
    \/ BulkSingleDone
    \/ \E c \in ConnIds : BulkBegin(c)
    \/ BulkOpOk
    \/ BulkOpFailFirst
    \/ BulkOpFailLater
    \/ BulkCommit
    \/ BulkCommitFail
    \/ BulkReplayCall
    \/ BulkReplayDone
    \/ BulkReplayEnd
    \/ BulkReturn
    \/ \E c \in ConnIds : Begin("p1", c)
    \/ ExecStmt("p1")
    \/ Commit("p1")
    \/ CommitFail("p1")

NextReplace ==
    \/ \E L \in ReplaceLists(focus) : \E d \in BOOLEAN :
          ReplaceT("t1", focus, L, d)
    \/ \E L \in ReplaceLists(focus) : \E d \in BOOLEAN :
          ReplaceReadFails("t1", L, d)
    \/ ReplaceReturns
    \/ BulkSteps

SpecReplace == InitBulk /\ [][NextReplace]_vars

\* the entity stored for tenant t under the id of o equals o
StoredAs(store, t, rt, o) ==
    LET g == GetParsedResource(store, t, rt, o.id) IN
    /\ g.val = o.val
    /\ \A c \in ChildTablesOf(rt) : g.kids[c] = o.kids[c]

\* C19: after Replace with deleteOthers = true has returned without error,
\* the ids stored for the tenant and type are the ids of the list, and every
\* stored entity equals its entry in the list
C19_ReplaceInstalls ==
    (imp.pc = "returned" /\ imp.op = "Replace" /\ imp.err = "none"
        /\ imp.del) =>
        /\ GetResources(db, imp.tenant, focus) = ObjIds(imp.list)
        /\ \A i \in DOMAIN imp.list :
              StoredAs(db, imp.tenant, focus, imp.list[i])

(***************************************************************************)
(* IncrementalImport (ss12000v2import), for the persons: the entities the  *)
(* remote reports as deleted, created or modified are reconciled, upserted *)
(* with ReplaceUsers(..., false) and deleted with DeleteUsers.             *)
(***************************************************************************)
\* organisationTimestamps, personTimestamps, ... at wall clock t: an object
\* without Meta counts with time.Now()
Timestamps(objs, t) ==
    [i \in DOMAIN objs |->
        IF objs[i].meta
        THEN [created |-> objs[i].created, modified |-> objs[i].modified]
        ELSE [created |-> t, modified |-> t]]

\* a watermark that forgets the stored value
mostRecentOfList(prev, ts) ==
    LET m[k \in 0..Len(ts)] ==
            IF k = 0 THEN 0
            ELSE IF ts[k] > m[k - 1] THEN ts[k] ELSE m[k - 1]
    IN m[Len(ts)]

\* the loops of RecordMostRecent: starting from the stored value (the zero
\* time if there is none), every later timestamp replaces it
mostRecent(prev, ts) ==
    LET m[k \in 0..Len(ts)] ==
            IF k = 0 THEN prev
            ELSE IF ts[k] > m[k - 1] THEN ts[k] ELSE m[k - 1]
    IN m[Len(ts)]

\* a RecordMostRecent that stores the latest timestamps of the lists,
\* whatever was stored
RecordLatest(h, stamps, q) ==
    [h EXCEPT
        !.created[q] =
            mostRecentOfList(@, [i \in DOMAIN stamps |-> stamps[i].created]),
        !.modified[q] =
            mostRecentOfList(@, [i \in DOMAIN stamps |-> stamps[i].modified])]

\* RecordMostRecent(created, modified, queryType) on history h
RecordMostRecent(h, stamps, q) ==
    [h EXCEPT
        !.created[q] =
            mostRecent(@, [i \in DOMAIN stamps |-> stamps[i].created]),
        !.modified[q] =
            mostRecent(@, [i \in DOMAIN stamps |-> stamps[i].modified])]

\* an SS12000 v2 person; eppn says that it has an eduPersonPrincipalName.
\* Its Meta says that it was created and last modified at time 1
Person(id, val, kids, eppn) ==
    [id |-> id, val |-> val, kids |-> kids, eppn |-> eppn, meta |-> TRUE,
     created |-> 1, modified |-> 1]

\* appendUnique(list1, list2, getId): the first object of every id
appendUnique(list1, list2) ==
    LET longList == list1 \o list2
        first == {i \in DOMAIN longList :
                     \A j \in 1..(i - 1) : longList[j].id # longList[i].id}
        nth[k \in 0..Len(longList)] ==
            IF k = 0 THEN 0
            ELSE CHOOSE i \in first :
                    /\ i > nth[k - 1]
                    /\ \A j \in first : j > nth[k - 1] => i <= j
    IN [k \in 1..Cardinality(first) |-> longList[nth[k]]]

\* removeIdsFromMap(m, objs, getId)
removeIdsFromMap(m, objs) == m \ ObjIds(objs)

\* personToV1: a person without eduPersonPrincipalName is not converted
personToV1(p) ==
    [ok |-> p.eppn, obj |-> Obj(p.id, p.val, p.kids)]

\* the loop over persons: those that personToV1 rejects are left out
v1users(persons) ==
    LET Converts(p) == personToV1(p).ok
        ps == SelectSeq(persons, Converts)
    IN [i \in DOMAIN ps |-> personToV1(ps[i]).obj]

\* what the remote answers: the ids of deletedEntities, the persons created
\* and the persons modified since the watermarks
Report(deleted, created, modified) ==
    [deleted |-> deleted, created |-> created, modified |-> modified]

\* IncrementalImport up to the Bulk call of ReplaceUsers
IncrementalImport(t, rep) ==
    LET persons == appendUnique(rep.created, rep.modified)
        users == v1users(persons)
    IN
    /\ imp.pc = "idle"
    /\ bulk.pc = "idle"
    /\ pc["p1"] = "idle"
    /\ AdapterBulk(t, UpsertOps(GetResources(db, t, focus), focus, users))
    /\ imp' = [NoImp EXCEPT !.pc = "replace", !.op = "Incremental",
                            !.tenant = t, !.list = users,
                            !.start = now, !.pre = hist[t],
                            !.deleted = removeIdsFromMap(rep.deleted, persons),
                            !.objs = persons, !.reported = rep.deleted]
    /\ AdapterVarsUnchanged

\* a read of the history or a call of the client fails: the import returns
\* the error
IncrementalFetchFails(t) ==
    /\ imp.pc = "idle"
    /\ bulk.pc = "idle"
    /\ pc["p1"] = "idle"
    /\ imp' = [NoImp EXCEPT !.pc = "returned", !.op = "Incremental",
                            !.tenant = t, !.err = "error"]
    /\ UNCHANGED bulk
    /\ AdapterVarsUnchanged

\* what IncrementalImport leaves alone when it writes to the history
HistoryVarsUnchanged ==
    UNCHANGED <<driver, focus, db, conns, pc, call, tx, stmts, err, got, pre,
                ncalls, nfail, log, schema, now, conf, runners, quit, mgr,
                clients, nreq>>

\* ReplaceUsers has returned; with a nil error
\* RecordMostRecent(personTimestamps(persons), "Persons") follows, which can
\* fail; then DeleteUsers with keysFromMap(deletedEntities.Persons), up to
\* its Bulk call
IncrementalDelete ==
    /\ imp.pc = "replace"
    /\ imp.op = "Incremental"
    /\ bulk.pc = "returned"
    /\ \E recorded \in BOOLEAN :
         IF bulk.err # "none" \/ ~recorded
         THEN /\ imp' = [imp EXCEPT !.pc = "returned", !.err = "error"]
              /\ UNCHANGED <<bulk, hist>>
         ELSE \E ks \in MapOrders(imp.deleted) :
                LET existing == GetResources(db, imp.tenant, focus)
                    Exists(id) == id \in existing
                IN
                /\ AdapterBulk(imp.tenant,
                               DeleteOps(focus, SelectSeq(ks, Exists)))
                /\ imp' = [imp EXCEPT !.pc = "delete"]
                /\ hist' = [hist EXCEPT ![imp.tenant] =
                              RecordMostRecent(@, Timestamps(imp.objs, now),
                                               "Persons")]
    /\ HistoryVarsUnchanged

\* DeleteUsers has returned; with a nil error
\* SetTimeOfLastDeletedEntitiesCall(timeOfDeletedEntitiesCall) follows, which
\* can fail; the import returns
IncrementalReturns ==
    /\ imp.pc = "delete"
    /\ bulk.pc = "returned"
    /\ \E recorded \in BOOLEAN :
         IF bulk.err # "none" \/ ~recorded
         THEN /\ imp' = [imp EXCEPT !.pc = "returned", !.err = "error"]
              /\ UNCHANGED hist
         ELSE /\ imp' = [imp EXCEPT !.pc = "returned", !.err = "none"]
              /\ hist' = [hist EXCEPT
                            ![imp.tenant].deletedCall = imp.start]
    /\ UNCHANGED bulk
    /\ HistoryVarsUnchanged

(***************************************************************************)
(* SpecIncremental: one incremental import, on a store that holds a.       *)
(***************************************************************************)
\* the persons of the reports: a new version of a, an a with an empty name,
\* a new person b, and a b without eduPersonPrincipalName
Persons(rt) ==
    LET X == [c \in ChildTablesOf(rt) |-> <<"x">>]
        YX == [c \in ChildTablesOf(rt) |->
                 IF c = objectMutator[rt][1] THEN <<"y", "x">> ELSE <<>>]
    IN
    {Person("a", "v2", YX, TRUE), Person("a", EmptyName, NoKids(rt), TRUE),
     Person("b", "v1", X, TRUE), Person("b", "v1", X, FALSE)}

Reports(rt) ==
    LET short == {<<>>} \cup {<<p>> : p \in Persons(rt)} IN
    {Report(d, c, m) : d \in SUBSET Ids, c \in short, m \in short}

NextIncremental ==
    \/ \E rep \in Reports(focus) : IncrementalImport("t1", rep)
    \/ IncrementalFetchFails("t1")
    \/ IncrementalDelete
    \/ IncrementalReturns
    \/ BulkSteps

SpecIncremental == InitBulk /\ [][NextIncremental]_vars

\* C20: when an incremental import has returned without error, every entity
\* that the remote reported both as deleted and as created or modified is in
\* the store
C20_UpsertWins ==
    (imp.pc = "returned" /\ imp.op = "Incremental" /\ imp.err = "none") =>
        \A id \in imp.reported \cap ObjIds(imp.objs) :
            db.main[<<imp.tenant, focus, id>>] # NoRow

(***************************************************************************)
(* FullImport (ss12000v2import): for every query type in turn the remote   *)
(* is fetched, the objects are converted and handed to the backend's       *)
(* Replace with deleteOthers = true, and the timestamps of the fetched     *)
(* objects are recorded in the import history.                             *)
(***************************************************************************)
\* the resource type the objects of a query type are replaced in
ReplacedType == [PrincipalOrganisations |-> "Organisations",
                 SchoolUnitOrganisations |-> "SchoolUnits",
                 Persons |-> "Users", Groups |-> "StudentGroups",
                 Duties |-> "Employments", Activities |-> "Activities"]

\* an SS12000 v2 object as fetched.  ok: schoolUnitToV1, personToV1 or
\* dutyToV1 converts it, or the group belongs to a fetched school unit;
\* meta: it has a Meta with the timestamps created and modified
V2(id, val, kids, ok, meta, created, modified) ==
    [id |-> id, val |-> val, kids |-> kids, ok |-> ok, meta |-> meta,
     created |-> created, modified |-> modified]

\* the v1 list FullImport builds for a query type: organisations and
\* activities are all converted, of the others those that convert
v1list(q, objs) ==
    LET Converts(o) == q \in {"PrincipalOrganisations", "Activities"} \/ o.ok
        os == SelectSeq(objs, Converts)
    IN [i \in DOMAIN os |-> Obj(os[i].id, os[i].val, os[i].kids)]

FullVarsUnchanged ==
    UNCHANGED <<backendVars, conf, runners, quit, mgr, clients, nreq>>

\* FullImport is called: it notes the time
FullImport(t) ==
    /\ imp.pc \in {"idle", "returned"}
    /\ imp.n < MaxImports
    /\ imp' = [NoImp EXCEPT !.pc = "fetch", !.op = "Full", !.tenant = t,
                            !.qt = 1, !.start = now, !.pre = hist[t],
                            !.n = imp.n + 1]
    /\ UNCHANGED <<now, hist>>
    /\ FullVarsUnchanged

\* the remote answers with objs for the query type at hand: the objects are
\* converted and the backend's Replace is called with deleteOthers = true
FullFetch(objs) ==
    /\ imp.pc = "fetch"
    /\ imp.op = "Full"
    /\ imp' = [imp EXCEPT !.pc = "replace", !.objs = objs, !.del = TRUE,
                          !.list = v1list(queryTypes[imp.qt], objs)]
    /\ UNCHANGED <<now, hist>>
    /\ FullVarsUnchanged

\* the call of the client fails: FullImport returns the error
FullFetchFails ==
    /\ imp.pc = "fetch"
    /\ imp.op = "Full"
    /\ imp' = [imp EXCEPT !.pc = "returned", !.err = "error"]
    /\ UNCHANGED <<now, hist>>
    /\ FullVarsUnchanged

\* Replace has returned; the backend is any SS12000v1Backend and the call is
\* represented by the error it returns.  With an error FullImport returns
\* it; otherwise the timestamps of the fetched objects are recorded, which
\* can fail in the persistent history, and the next query type is fetched
FullRecord ==
    LET t == imp.tenant
        q == queryTypes[imp.qt]
        stamps == Timestamps(imp.objs, now)
    IN
    /\ imp.pc = "replace"
    /\ imp.op = "Full"
    /\ \E replaced, recorded \in BOOLEAN :
         IF ~replaced \/ ~recorded
         THEN /\ imp' = [imp EXCEPT !.pc = "returned", !.err = "error"]
              /\ UNCHANGED hist
         ELSE /\ hist' = [hist EXCEPT ![t] = RecordMostRecent(@, stamps, q)]
              /\ imp' = [imp EXCEPT
                            !.pc = IF imp.qt < Len(queryTypes) THEN "fetch"
                                   ELSE "stamp",
                            !.qt = IF imp.qt < Len(queryTypes) THEN @ + 1
                                   ELSE @,
                            !.seen[q] = stamps, !.list = <<>>,
                            !.objs = <<>>]
    /\ UNCHANGED now
    /\ FullVarsUnchanged

\* a FullImport that stamps the cursor with the time of its end
FullStampNow ==
    /\ imp.pc = "stamp"
    /\ \E recorded \in BOOLEAN :
         IF recorded
         THEN /\ hist' = [hist EXCEPT ![imp.tenant].deletedCall = now]
              /\ imp' = [imp EXCEPT !.pc = "returned"]
         ELSE /\ imp' = [imp EXCEPT !.pc = "returned", !.err = "error"]
              /\ UNCHANGED hist
    /\ UNCHANGED now
    /\ FullVarsUnchanged

\* SetTimeOfLastDeletedEntitiesCall(timeOfFullImportStart); FullImport
\* returns
FullStamp ==
    /\ imp.pc = "stamp"
    /\ \E recorded \in BOOLEAN :
         IF recorded
         THEN /\ hist' = [hist EXCEPT ![imp.tenant].deletedCall = imp.start]
              /\ imp' = [imp EXCEPT !.pc = "returned"]
         ELSE /\ imp' = [imp EXCEPT !.pc = "returned", !.err = "error"]
              /\ UNCHANGED hist
    /\ UNCHANGED now
    /\ FullVarsUnchanged

(***************************************************************************)
(* SpecFull: full imports of one tenant, one after the other.  The remote  *)
(* holds objects of one type, with differing timestamps.                   *)
(***************************************************************************)
\* the objects the remote can answer with: a, created before and modified
\* after b; a b without Meta; an a that is not converted
Fetched(rt) ==
    LET X == [c \in ChildTablesOf(rt) |-> <<"x">>] IN
    {V2("a", "v2", X, TRUE, TRUE, 1, 2), V2("b", "v1", X, TRUE, TRUE, 2, 1),
     V2("b", "v1", X, TRUE, FALSE, 0, 0), V2("a", "v2", X, FALSE, TRUE, 2, 2)}

\* the answers of the remote for a query type: no id twice
Fetches(q) ==
    IF ReplacedType[q] # focus THEN {<<>>}
    ELSE {<<>>}
         \cup {<<o>> : o \in Fetched(focus)}
         \cup {<<o1, o2>> : o1 \in {o \in Fetched(focus) : o.id = "a"},
                            o2 \in {o \in Fetched(focus) : o.id = "b"}}

NextFull ==
    \/ FullImport("t1")
    \/ (imp.pc = "fetch" /\ \E objs \in Fetches(queryTypes[imp.qt]) :
                               FullFetch(objs))
    \/ FullFetchFails
    \/ FullRecord
    \/ FullStamp
    \/ Tock

\* no import has run yet; the type the remote holds objects of is one of
\* those FullImport replaces
InitFull ==
    /\ focus \in Range(ReplacedType)
    /\ db = EmptyStore
    /\ InitBackend
    /\ Migrated
    /\ driver = "mysql"
    /\ ImportIdle

SpecFull == InitFull /\ [][NextFull]_vars

\* a full import of this kind has returned without error
FullDone == imp.pc = "returned" /\ imp.op = "Full" /\ imp.err = "none"

Stamps(q, kind) == [i \in DOMAIN imp.seen[q] |-> imp.seen[q][i][kind]]

\* C21 as stated: after a successful full import the watermarks of every
\* query type with fetched objects are the latest created and the latest
\* modified timestamp of these objects
C21_AsStated ==
    FullDone =>
        \A q \in QueryTypes : imp.seen[q] # <<>> =>
            /\ hist[imp.tenant].created[q] =
                  mostRecentOfList(0, Stamps(q, "created"))
            /\ hist[imp.tenant].modified[q] =
                  mostRecentOfList(0, Stamps(q, "modified"))

\* C21 amended: after a successful full import the watermarks of every query
\* type are the later of their value before the import and the latest
\* timestamp of the fetched objects
C21_Amended ==
    FullDone =>
        \A q \in QueryTypes :
            LET Later(x, y) == IF x > y THEN x ELSE y IN
            /\ hist[imp.tenant].created[q] =
                  Later(imp.pre.created[q],
                        mostRecentOfList(0, Stamps(q, "created")))
            /\ hist[imp.tenant].modified[q] =
                  Later(imp.pre.modified[q],
                        mostRecentOfList(0, Stamps(q, "modified")))

\* a second full import fetched persons older than the watermarks of the
\* first and has returned without error
C21_Witness ==
    /\ FullDone
    /\ imp.n = 2
    /\ imp.seen["Persons"] # <<>>
    /\ imp.pre.created["Persons"] >
          mostRecentOfList(0, Stamps("Persons", "created"))
    /\ hist[imp.tenant].created["Persons"] = imp.pre.created["Persons"]
    /\ imp.pre.modified["Persons"] <
          mostRecentOfList(0, Stamps("Persons", "modified"))

(***************************************************************************)
(* SpecTwice: Replace with deleteOthers = true, called a second time with  *)
(* the same list after it has returned without error.                      *)
(***************************************************************************)
\* the caller repeats the call of Replace that has just returned
ReplaceAgain ==
    LET t == imp.tenant
        L == imp.list
        existing == GetResources(db, t, focus)
        others == IF imp.del THEN existing \ ObjIds(L) ELSE {}
    IN
    /\ imp.pc = "returned"
    /\ imp.op = "Replace"
    /\ imp.err = "none"
    /\ imp.n = 0
    /\ bulk.pc = "returned"
    /\ pc["p1"] = "idle"
    /\ \E ds \in MapOrders(others) :
          AdapterBulk(t, UpsertOps(existing, focus, L) \o DeleteOps(focus, ds))
    /\ imp' = [imp EXCEPT !.pc = "replace", !.n = 1, !.once = db]
    /\ log' = <<>>
    /\ UNCHANGED <<driver, focus, db, conns, pc, call, tx, stmts, err, got,
                   pre, ncalls, nfail, schema, now, conf, hist, runners,
                   quit, mgr, clients, nreq>>

\* lists in which an id occurs twice: two versions of the stored entity a,
\* and two versions of the new entity b
DupLists(rt) ==
    LET X == [c \in ChildTablesOf(rt) |-> <<"x">>]
        YX == [c \in ChildTablesOf(rt) |->
                 IF c = objectMutator[rt][1] THEN <<"y", "x">> ELSE <<>>]
    IN
    {<<Obj("a", "v2", YX), Obj("a", "v1", X)>>,
     <<Obj("b", "v1", X), Obj("b", "v2", YX)>>}

NextTwice ==
    \/ \E L \in ReplaceLists(focus) \cup DupLists(focus) :
          ReplaceT("t1", focus, L, TRUE)
    \/ \E L \in ReplaceLists(focus) \cup DupLists(focus) :
          ReplaceReadFails("t1", L, TRUE)
    \/ ReplaceReturns
    \/ ReplaceAgain
    \/ BulkSteps

SpecTwice == InitBulk /\ [][NextTwice]_vars

\* C22: when the second of two successive calls of Replace with the same
\* list and deleteOthers = true has returned, and neither call returned an
\* error nor met a failing Commit, the store is as the first call left it
C22_ReplaceTwice ==
    (imp.pc = "returned" /\ imp.op = "Replace" /\ imp.n = 1
        /\ imp.err = "none" /\ nfail = 0) =>
        db = imp.once

(***************************************************************************)
(* Startup (NewSQLBackend, initSchema): the stored schema version is read  *)
(* and the migrations above it are run and the version is updated in one   *)
(* transaction.                                                            *)
(***************************************************************************)
StartVarsUnchanged ==
    UNCHANGED <<importVars, driver, focus, db, conns, pc, call, tx, stmts,
                err, got, pre, ncalls, nfail, bulk, log>>

\* initDBConnection up to Beginx: the driver-specific initialisation or
\* Beginx fails, or the version read (0 when the read fails, whatever is
\* stored) is newer than the code, and initSchema returns the error;
\* otherwise the transaction is open and the loop starts above the version
StartBackend ==
    /\ schema.pc \in {"down", "returned"}
    /\ schema.n < MaxStarts
    /\ \E ok \in BOOLEAN : \E version \in {getDBVersion(schema), 0} :
         LET s == [schema EXCEPT !.n = @ + 1, !.ran = <<>>, !.i = 0,
                                 !.from = version,
                                 !.before = Stored(schema),
                                 !.txTables = schema.tables,
                                 !.txVersion = schema.version]
         IN
         IF ~ok \/ version > currentSchemaVersion
         THEN schema' = [s EXCEPT !.pc = "returned", !.res = "error"]
         ELSE schema' = [s EXCEPT !.pc = "migrate", !.res = "none",
                                  !.i = version + 1]
    /\ StartVarsUnchanged

\* tx.Exec(getSchema(i)): it fails when a table it creates exists, or for a
\* reason of the database's own; initSchema then returns the error and the
\* deferred Rollback drops what the transaction did
StartMigrate ==
    /\ schema.pc = "migrate"
    /\ schema.i <= currentSchemaVersion
    /\ \E ok \in BOOLEAN :
         IF ok /\ getSchema[schema.i] \cap schema.txTables = {}
         THEN schema' = [schema EXCEPT
                            !.txTables = @ \cup getSchema[schema.i],
                            !.txVersion = IF schema.i = 1 THEN 1 ELSE @,
                            !.ran = Append(@, schema.i),
                            !.i = @ + 1]
         ELSE schema' = [schema EXCEPT !.pc = "returned", !.res = "error"]
    /\ StartVarsUnchanged

\* tx.NamedExec(UPDATE windermere_meta SET version = ...): its result and
\* its error are not looked at
StartSetVersion ==
    /\ schema.pc = "migrate"
    /\ schema.i > currentSchemaVersion
    /\ \E ok \in BOOLEAN :
         schema' = [schema EXCEPT
                       !.pc = "commit",
                       !.txVersion = IF ok THEN currentSchemaVersion ELSE @]
    /\ StartVarsUnchanged

\* tx.Commit(): what the transaction did is stored and initSchema returns
\* nil, or Commit fails and initSchema returns the error
StartCommit ==
    /\ schema.pc = "commit"
    /\ \E ok \in BOOLEAN :
         IF ok
         THEN schema' = [schema EXCEPT !.pc = "returned", !.res = "nil",
                                       !.tables = schema.txTables,
                                       !.version = schema.txVersion]
         ELSE schema' = [schema EXCEPT !.pc = "returned", !.res = "error"]
    /\ StartVarsUnchanged

(***************************************************************************)
(* SpecStartup: startups of the backend, one after the other, on a         *)
(* database that is new, at an older version, current, or newer than the   *)
(* code.                                                                   *)
(***************************************************************************)
\* the tables the migrations up to version v create
TablesAt(v) == UNION {getSchema[i] : i \in 1..v}

Databases ==
    {[NoSchema EXCEPT !.tables = TablesAt(v), !.version = v] :
        v \in 0..currentSchemaVersion}
    \cup {[NoSchema EXCEPT
              !.tables = TablesAt(currentSchemaVersion) \cup {"Newer"},
              !.version = currentSchemaVersion + 1]}

InitStartup ==
    /\ focus = "Users"
    /\ db = EmptyStore
    /\ InitBackend
    /\ schema \in Databases
    /\ ImportIdle

NextStartup ==
    \/ StartBackend
    \/ StartMigrate
    \/ StartSetVersion
    \/ StartCommit

SpecStartup == InitStartup /\ [][NextStartup]_vars

\* the versions above v, in ascending order
Above(v) == [k \in 1..(currentSchemaVersion - v) |-> v + k]

\* C23: when a startup has returned nil the stored version is the code's
\* version and the migrations above the version stored before have run once
\* each, in ascending order, in the transaction that was committed; when it
\* has returned an error the tables and the stored version are as before
C23_Startup ==
    schema.pc = "returned" =>
        IF schema.res = "nil"
        THEN /\ schema.version = currentSchemaVersion
             /\ schema.before.version <= currentSchemaVersion
             /\ schema.ran = Above(schema.before.version)
             /\ schema.tables = TablesAt(currentSchemaVersion)
        ELSE Stored(schema) = schema.before

(***************************************************************************)
(* The import persistence (ss12000v2ImportPersistence): the table configs  *)
(* holds one row per tenant with its ImportConfig and its import history.  *)
(* The HTTP handlers add and delete imports; a runner reads and writes the *)
(* history through PersistenceImportHistory, which reads the whole history *)
(* and writes it back.                                                     *)
(***************************************************************************)
PersistVarsUnchanged ==
    UNCHANGED <<backendVars, conf, runners, quit, mgr>>

\* the history part of a row
HistoryFields == {"fullS", "fullC", "incS", "incC", "created", "modified",
                  "deletedCall"}

TenantImportHistory(h) == [f \in HistoryFields |-> h[f]]

\* getHistory(): the history of the tenant's row; an error when there is no
\* row
getHistory(h) ==
    IF h.row THEN [history |-> h, err |-> "nil"]
    ELSE [history |-> ZeroHist, err |-> "error"]

\* GetTimeOfLast...(), GetTimeOfLastDeletedEntitiesCall()
GetTime(h, f) ==
    LET g == getHistory(h) IN
    [time |-> IF g.err = "nil" THEN g.history[f] ELSE 0, err |-> g.err]

\* GetMostRecentlyCreated(queryType), GetMostRecentlyModified(queryType)
GetMostRecently(h, f, q) ==
    LET g == getHistory(h) IN
    [time |-> IF g.err = "nil" THEN g.history[f][q] ELSE 0, err |-> g.err]

\* the call the handler c has made is noted with its number and the row it
\* found
Called(c, cmd, t) ==
    clients' = [clients EXCEPT ![c] = [NoClient EXCEPT !.pc = "returned",
                                                       !.cmd = cmd,
                                                       !.tenant = t,
                                                       !.pre = hist[t],
                                                       !.n = nreq + 1]]

\* an upsert that replaces the whole row
AddImportReplacesRow(c, t, config) ==
    /\ nreq < MaxReqs
    /\ nreq' = nreq + 1
    /\ \E ok \in BOOLEAN :
         IF ok
         THEN hist' = [hist EXCEPT ![t] = [ZeroHist EXCEPT !.row = TRUE,
                                                          !.config = config]]
         ELSE UNCHANGED hist
    /\ Called(c, "AddImport", t)
    /\ UNCHANGED <<now, imp>>
    /\ PersistVarsUnchanged

\* AddImport(config): INSERT ... ON CONFLICT (tenant) DO UPDATE SET config;
\* when the statement fails nothing is stored
AddImport(c, t, config) ==
    /\ nreq < MaxReqs
    /\ nreq' = nreq + 1
    /\ \E ok \in BOOLEAN :
         IF ok
         THEN hist' = [hist EXCEPT
                          ![t] = IF hist[t].row
                                 THEN [hist[t] EXCEPT !.config = config]
                                 ELSE [ZeroHist EXCEPT !.row = TRUE,
                                                       !.config = config]]
         ELSE UNCHANGED hist
    /\ Called(c, "AddImport", t)
    /\ UNCHANGED <<now, imp>>
    /\ PersistVarsUnchanged

\* DeleteImport(tenant): DELETE FROM configs WHERE tenant = ...
DeleteImport(c, t) ==
    /\ nreq < MaxReqs
    /\ nreq' = nreq + 1
    /\ \E ok \in BOOLEAN :
         IF ok THEN hist' = [hist EXCEPT ![t] = ZeroHist]
         ELSE UNCHANGED hist
    /\ Called(c, "DeleteImport", t)
    /\ UNCHANGED <<now, imp>>
    /\ PersistVarsUnchanged

\* the first half of SetTimeOfLast...(now) or of RecordMostRecent: the
\* history is read, which fails when there is no row, and changed in memory
HistoryRead(t, change) ==
    LET g == getHistory(hist[t])
        h == g.history
    IN
    /\ imp.pc \in {"idle", "returned"}
    /\ imp.n < MaxWrites
    /\ imp' = [NoImp EXCEPT
                  !.op = "History", !.tenant = t, !.n = imp.n + 1,
                  !.pc = IF g.err = "nil" THEN "set" ELSE "returned",
                  !.err = IF g.err = "nil" THEN "none" ELSE "error",
                  !.pre = IF g.err # "nil" THEN ZeroHist
                          ELSE IF change.f = "record"
                          THEN RecordMostRecent(h, change.stamps, change.q)
                          ELSE [h EXCEPT ![change.f] = now]]
    /\ UNCHANGED <<now, hist, clients, nreq>>
    /\ PersistVarsUnchanged

\* setHistory(history): UPDATE configs SET history = ... WHERE tenant = ...
\* writes the history column of the row, if there is one
setHistory ==
    LET t == imp.tenant IN
    /\ imp.pc = "set"
    /\ imp.op = "History"
    /\ \E ok \in BOOLEAN :
         /\ IF ok /\ hist[t].row
            THEN hist' = [hist EXCEPT
                             ![t] = [f \in DOMAIN hist[t] |->
                                        IF f \in HistoryFields THEN imp.pre[f]
                                        ELSE hist[t][f]]]
            ELSE UNCHANGED hist
         /\ imp' = [imp EXCEPT !.pc = "returned",
                               !.err = IF ok THEN "none" ELSE "error"]
    /\ UNCHANGED <<now, clients, nreq>>
    /\ PersistVarsUnchanged

(***************************************************************************)
(* SpecPersist: a handler adds and deletes imports while a runner writes   *)
(* the history of the first tenant.                                        *)
(***************************************************************************)
ImportConfigs == {"config1", "config2"}

\* the writes of the history: times of the runner, the time of the last
\* deletedEntities call, and the watermarks of the persons
HistoryChanges ==
    {[f |-> f, q |-> "Persons", stamps |-> <<>>] :
        f \in {"fullS", "fullC", "deletedCall"}}
    \cup {[f |-> "record", q |-> "Persons",
           stamps |-> <<[created |-> 1, modified |-> 2]>>]}

NextPersist ==
    \/ \E t \in AddTenants : \E config \in ImportConfigs :
          AddImport("c1", t, config)
    \/ \E t \in AddTenants : DeleteImport("c1", t)
    \/ \E change \in HistoryChanges : HistoryRead("t1", change)
    \/ setHistory

\* no import is stored
InitPersist ==
    /\ focus = "Users"
    /\ db = EmptyStore
    /\ InitBackend
    /\ Migrated
    /\ ImportIdle

SpecPersist == InitPersist /\ [][NextPersist]_vars

\* the handler c makes a call of cmd in this step
Calls(c, cmd) == clients'[c] # clients[c] /\ clients'[c].cmd = cmd

\* every getter of history h returns the zero time and no error
ZeroGetters(h) ==
    /\ \A f \in HistoryFields \ {"created", "modified"} :
          GetTime(h, f) = [time |-> 0, err |-> "nil"]
    /\ \A f \in {"created", "modified"} : \A q \in QueryTypes :
          GetMostRecently(h, f, q) = [time |-> 0, err |-> "nil"]

\* C24: a call of AddImport that succeeds for a tenant with a stored import
\* stores the configuration and leaves every field of the tenant's history
\* as it is; for a tenant without one it stores a history of which every
\* getter returns the zero time and no error; a call that fails, and a call
\* for another tenant, leaves the row as it is
C24_AddImport ==
    [][\A c \in Clients : Calls(c, "AddImport") =>
          LET t == clients'[c].tenant IN
          /\ \A u \in Tenants \ {t} : hist'[u] = hist[u]
          /\ hist'[t] # hist[t] =>
                IF hist[t].row
                THEN /\ TenantImportHistory(hist'[t]) =
                           TenantImportHistory(hist[t])
                     /\ hist'[t].row
                ELSE /\ hist'[t].row
                     /\ ZeroGetters(hist'[t])]_vars

\* AddImport has replaced the configuration of a tenant whose history holds
\* times and watermarks, and they are still there
C24_Witness ==
    \E c \in Clients :
        LET t == clients[c].tenant IN
        /\ clients[c].cmd = "AddImport"
        /\ clients[c].pre.row
        /\ clients[c].pre.config # hist[t].config
        /\ clients[c].pre.fullC # 0
        /\ clients[c].pre.created["Persons"] # 0
        /\ TenantImportHistory(hist[t]) = TenantImportHistory(clients[c].pre)

(***************************************************************************)
(* The import controller (ss12000v2ImportController): AddImport stores the *)
(* configuration and then adds the runner; DeleteImport deletes the runner *)
(* and then the stored configuration.  The controller has no goroutine and *)
(* no lock of its own: its methods run in the HTTP handlers that call      *)
(* them.                                                                   *)
(***************************************************************************)
\* the handler c can make a call of the controller
Free(c) ==
    \/ clients[c].pc \in {"idle", "completed"}
    \/ clients[c].pc = "returned" /\ clients[c].cmd = "AddImport"

\* AddImport(config): persistence.AddImport(config); when it fails the call
\* returns the error, otherwise the handler goes on to manager.AddRunner
\* and blocks in im.add <- conf
CtlAddImport(c, t, config) ==
    /\ Free(c)
    /\ nreq < MaxReqs
    /\ nreq' = nreq + 1
    /\ \E ok \in BOOLEAN :
         IF ok
         THEN /\ hist' = [hist EXCEPT
                             ![t] = IF hist[t].row
                                    THEN [hist[t] EXCEPT !.config = config]
                                    ELSE [ZeroHist EXCEPT !.row = TRUE,
                                                          !.config = config]]
              /\ clients' = [clients EXCEPT ![c] =
                               [NoClient EXCEPT !.pc = "add",
                                                !.cmd = "AddImport",
                                                !.tenant = t]]
         ELSE /\ UNCHANGED hist
              /\ clients' = [clients EXCEPT ![c] =
                               [NoClient EXCEPT !.pc = "failed",
                                                !.cmd = "AddImport",
                                                !.tenant = t]]
    /\ UNCHANGED <<backendVars, now, conf, runners, quit, mgr, imp>>

\* DeleteImport(tenant): the handler enters manager.DeleteRunner and blocks
\* in im.delete <- command
CtlDeleteImport(c, t) ==
    /\ Free(c)
    /\ nreq < MaxReqs
    /\ nreq' = nreq + 1
    /\ clients' = [clients EXCEPT ![c] =
                     [NoClient EXCEPT !.pc = "delete",
                                      !.cmd = "DeleteImport",
                                      !.tenant = t]]
    /\ UNCHANGED <<backendVars, now, conf, hist, runners, quit, mgr, imp>>

\* DeleteRunner has returned: persistence.DeleteImport(tenant)
CtlDeleteRow(c) ==
    /\ clients[c].pc = "returned"
    /\ clients[c].cmd = "DeleteImport"
    /\ \E ok \in BOOLEAN :
         IF ok
         THEN /\ hist' = [hist EXCEPT ![clients[c].tenant] = ZeroHist]
              /\ clients' = [clients EXCEPT ![c].pc = "completed"]
         ELSE /\ UNCHANGED hist
              /\ clients' = [clients EXCEPT ![c].pc = "failed"]
    /\ UNCHANGED <<backendVars, now, conf, runners, quit, mgr, nreq, imp>>

NextController ==
    \/ \E c \in Clients : \E t \in AddTenants : CtlAddImport(c, t, "config1")
    \/ \E c \in Clients : \E t \in AddTenants : CtlDeleteImport(c, t)
    \/ \E c \in Clients : CtlDeleteRow(c)
    \/ \E c \in Clients : MgrAdd(c)
    \/ MgrAddNew
    \/ \E c \in Clients : MgrDelete(c)
    \/ MgrErase
    \/ MgrReply
    \/ \E r \in RunnerIds : RunPoll(r)
    \/ \E r \in RunnerIds : RunQuit(r)
    \/ \E r \in RunnerIds : RunTick(r)
    \/ \E r \in RunnerIds : TickDecide(r)
    \/ \E r \in RunnerIds : ImportReturns(r)
    \/ \E r \in RunnerIds : TickEnds(r)
    \/ \E r \in RunnerIds : RunAck(r)
    \/ \E r \in RunnerIds : QuitCheck(r)
    \/ \E r \in RunnerIds : QuitGet(r)
    \/ \E r \in RunnerIds : QuitCancel(r)

SpecController == InitManager /\ [][NextController]_vars

\* every call of the controller made so far has returned without error, and
\* the manager waits for a command
Completed ==
    /\ \A c \in Clients : Free(c)
    /\ mgr.pc = "idle"

\* C31 as stated: when all AddImport and DeleteImport calls have completed,
\* the manager holds a runner for a tenant exactly if a configuration row
\* of that tenant is stored
C31_RunnerIffRow ==
    Completed =>
        \A t \in Tenants : (mgr.runners[t] # 0) = hist[t].row


(***************************************************************************)
(* Properties of the order of full and incremental imports.                *)
(***************************************************************************)
\* NewImportRunner(conf) has run for the first tenant, and the wall clock is
\* further from the zero time than every configured frequency, so that the
\* first tick of a tenant without history decides for a full import
InitRunnerLate ==
    /\ focus = "Users"
    /\ db = EmptyStore
    /\ InitBackend
    /\ Migrated
    /\ driver = "mysql"
    /\ now = MaxTime - 1
    /\ conf \in Confs
    /\ hist = [t \in Tenants |-> ZeroHist]
    /\ runners = [r \in RunnerIds |->
                    IF r = 1 THEN [NoRunner EXCEPT !.pc = "loop",
                                                   !.ticker = MaxTicks]
                    ELSE NoRunner]
    /\ quit = [r \in RunnerIds |-> NoQuit]
    /\ mgr = [NoMgr EXCEPT !.runners["t1"] = 1]
    /\ clients = [c \in Clients |-> NoClient]
    /\ nreq = 0
    /\ imp = NoImp

SpecRunnerLate == InitRunnerLate /\ [][NextRunner]_vars

\* C32 as stated: whenever a runner is inside IncrementalImport, a full
\* import of its tenant has completed successfully before, that is, the time
\* of the last completed full import is not the zero time
C32_FullBeforeIncremental ==
    \A r \in RunnerIds :
        (runners[r].pc = "import" /\ runners[r].kind = "incremental") =>
            hist[runners[r].tenant].fullC # 0


(***************************************************************************)
(* Properties of the deletedEntities cursor.                               *)
(***************************************************************************)
\* C33: while a FullImport runs and after it has failed, the time of the
\* last deletedEntities call is what it was when the import was called; a
\* FullImport that returned without error has gone through all six query
\* types and left the time of its own start there
C33_FullStampsStart ==
    imp.op = "Full" =>
        IF FullDone
        THEN /\ imp.qt = Len(queryTypes)
             /\ hist[imp.tenant].deletedCall = imp.start
        ELSE hist[imp.tenant].deletedCall = imp.pre.deletedCall

\* a second full import returned without error some time after it started,
\* and the cursor moved from the start of the first to the start of the
\* second
C33_Witness ==
    /\ FullDone
    /\ imp.n = 2
    /\ imp.pre.deletedCall # 0
    /\ imp.start > imp.pre.deletedCall
    /\ now > imp.start
    /\ hist[imp.tenant].deletedCall = imp.start


\* C34 as stated: when an incremental import has moved the time of the last
\* deletedEntities call, it has moved it to the time of its own start, and
\* every entity of its deleted-set is gone from the store
C34_CursorAfterDeletes ==
    (imp.op = "Incremental"
        /\ hist[imp.tenant].deletedCall # imp.pre.deletedCall) =>
            /\ hist[imp.tenant].deletedCall = imp.start
            /\ \A id \in imp.deleted :
                  db.main[<<imp.tenant, focus, id>>] = NoRow


(***************************************************************************)
(* Properties of the watermarks.                                           *)
(***************************************************************************)
\* C35 as stated: when an incremental import has moved the watermark of the
\* persons, every fetched person whose timestamp the watermark has reached
\* is in the store, unless personToV1 rejected it
C35_WatermarkBehindStore ==
    (imp.op = "Incremental"
        /\ hist[imp.tenant].created["Persons"] #
              imp.pre.created["Persons"]) =>
            \A i \in DOMAIN imp.objs :
                (/\ imp.objs[i].created <= hist[imp.tenant].created["Persons"]
                 /\ personToV1(imp.objs[i]).ok) =>
                    db.main[<<imp.tenant, focus, imp.objs[i].id>>] # NoRow


UnitLists ==
    LET units == {o \in Fetched("SchoolUnits") : o.ok} IN
    {<<>>} \cup {<<o>> : o \in units}
           \cup {<<o1, o2>> : o1 \in {o \in units : o.id = "a"},
                              o2 \in {o \in units : o.id = "b"}}

\* su.Meta is nil for one of the school units: su.Meta.Created dereferences
\* a nil pointer
NilMeta(all) == \E i \in DOMAIN all : ~all[i].meta

\* the loop over allSchoolUnits of IncrementalImport
unitsSince(all, createdAfter, modifiedAfter) ==
    LET Newer(su) == su.created > createdAfter \/ su.modified > modifiedAfter
    IN SelectSeq(all, Newer)

\* where an import that does not panic can end: with nil (and the write of
\* the time of completion succeeds or fails), with an error before the
\* school units were recorded, or with an error after that
Outcomes == {"nil", "write", "early", "late"}

\* the import of the tick runs with the school units all: an incremental
\* import panics on a nil Meta, and the deferred function of importTick
\* recovers; otherwise the timestamps of the school units are recorded,
\* unless the import has failed before, and with a nil error the time of
\* completion is written
ImportUnits(r, all) ==
    LET t == runners[r].tenant
        q == "SchoolUnitOrganisations"
        h == hist[t]
        orgs == IF runners[r].kind = "full" THEN all
                ELSE unitsSince(all, h.created[q], h.modified[q])
        stamped == RecordMostRecent(h, Timestamps(orgs, now), q)
        noted == [NoImp EXCEPT !.op = runners[r].kind, !.pc = "returned",
                               !.tenant = t, !.objs = all, !.start = now,
                               !.pre = h]
    IN
    /\ runners[r].pc = "import"
    /\ IF runners[r].kind = "incremental" /\ NilMeta(all)
       THEN /\ runners' = [runners EXCEPT ![r].pc = "panicked",
                                          ![r].herr = "panic"]
            /\ imp' = [noted EXCEPT !.err = "panic"]
            /\ UNCHANGED hist
       ELSE \E out \in Outcomes :
              /\ runners' = [runners EXCEPT ![r].pc = "after",
                               ![r].herr = IF out = "nil" THEN "nil"
                                           ELSE IF out = "write" THEN "write"
                                           ELSE "error"]
              /\ imp' = [noted EXCEPT !.err = out]
              /\ hist' = [hist EXCEPT ![t] =
                            IF out = "early" THEN h
                            ELSE IF out \in {"late", "write"} THEN stamped
                            ELSE IF runners[r].kind = "full"
                                 THEN [stamped EXCEPT !.fullC = now]
                                 ELSE [stamped EXCEPT !.incC = now]]
    /\ UNCHANGED <<backendVars, now, conf, quit, mgr, clients, nreq>>

NextUnits ==
    \/ Tock
    \/ RunPoll(1)
    \/ RunQuit(1)
    \/ RunTick(1)
    \/ TickDecide(1)
    \/ (runners[1].pc = "import" /\ \E all \in UnitLists : ImportUnits(1, all))
    \/ TickEnds(1)
    \/ TickPanicked(1)
    \/ RunStopped(1)
    \/ RunAck(1)
    \/ QuitCall(1)
    \/ QuitCheck(1)
    \/ QuitGet(1)
    \/ QuitCancel(1)

SpecUnits == InitRunnerLate /\ [][NextUnits]_vars

\* C37 as stated, for the school units: when an import, full or incremental
\* (the latter after a full import has completed), has been handed a school
\* unit without Meta, it has not panicked and its runner has not stopped,
\* and if it got as far as recording the school units, their watermarks have
\* reached the wall clock of the import
C37_AbsentMeta ==
    (imp.op \in {"full", "incremental"} /\ NilMeta(imp.objs)
        /\ (imp.op = "incremental" => imp.pre.fullC # 0)) =>
            /\ imp.err # "panic"
            /\ \A r \in RunnerIds : ~runners[r].stopped
            /\ imp.err # "early" =>
                  /\ hist[imp.tenant].created["SchoolUnitOrganisations"]
                        >= imp.start
                  /\ hist[imp.tenant].modified["SchoolUnitOrganisations"]
                        >= imp.start


(***************************************************************************)
(* Further properties of single requests (specification Spec).             *)
(***************************************************************************)
\* C38 as stated: an Update that has returned has changed no primary row
\* other than that of (tenant, type, id) and no child row of another
\* entity
C38_UpdateOnlyItsEntity ==
    Returned("Update") =>
        /\ \A k \in MainKeys \ {KeyOf(Cur.id)} :
              db.main[k] = Before.main[k]
        /\ \A c \in ChildKeys \ ChildKeysOf(Cur.tenant, Cur.rt, Cur.id) :
              db.child[c] = Before.child[c]


(***************************************************************************)
(* SpecCreates: two Create requests for the same tenant, type and id,      *)
(* served by two handlers at the same time.  The store does not hold the   *)
(* id.                                                                     *)
(***************************************************************************)
TwoCreates ==
    LET X == [c \in ChildTablesOf(focus) |-> <<"x">>]
        Y == [c \in ChildTablesOf(focus) |-> <<"y">>]
    IN
    {CallRec("Create", "t1", focus, NoId, Raw("b", "v1", X, NoGroup, FALSE)),
     CallRec("Create", "t1", focus, NoId, Raw("b", "v2", Y, NoGroup, FALSE))}

NextCreates ==
    \/ \E p \in Procs : \E c \in TwoCreates : Serve(p, c)
    \/ \E p \in Procs : \E c \in ConnIds : Begin(p, c)
    \/ \E p \in Procs : ExecStmt(p)
    \/ \E p \in Procs : Commit(p)
    \/ \E p \in Procs : CommitFail(p)

SpecCreates == Init /\ [][NextCreates]_vars

\* both Create calls have returned and no Commit has failed
BothCreated ==
    /\ \A p \in Procs : pc[p] = "done" /\ call[p].kind = "Create"
    /\ nfail = 0

\* C39 as stated: when two concurrent Creates of the same id have returned,
\* one of them has succeeded and the other one has failed with Conflict, and
\* the store holds the primary row and the child rows of the one that
\* succeeded
C39_OneCreateWins ==
    BothCreated =>
        \E w \in Procs : \A l \in Procs \ {w} :
            /\ err[w] = "none"
            /\ err[l] = "Conflict"
            /\ db.main[<<"t1", focus, "b">>] = call[w].raw.val
            /\ \A t \in ChildTablesOf(focus) :
                  db.child[<<"t1", t, "b">>] = call[w].raw.kids[t]


(***************************************************************************)
(* Properties of the connection pool (specification Spec).                 *)
(***************************************************************************)
\* C40 as stated: on SQLite every connection on which a transaction of the
\* backend is open enforces foreign keys
C40_ForeignKeysOn ==
    driver = "sqlite" =>
        \A p \in Procs : tx[p].active => tx[p].fk /\ conns[tx[p].conn].fk

====
